---- MODULE Spec2Model ----
(***************************************************************************)
(* A model of StreamingClient (misskey_ai/clients/misskey/streaming.py):   *)
(* the channel registry, the socket handle, the connect() retry loop, the  *)
(* teardown operations, and the dedup cache / event queue / worker pool.   *)
(*                                                                         *)
(* The client runs on one asyncio event loop.  Code between two awaits is  *)
(* atomic, so every action below is one such segment of one coroutine:     *)
(* from its call (or from the await it was suspended in) to its next       *)
(* await, its return or its raise.  Callers are the tasks of Tasks.        *)
(***************************************************************************)
EXTENDS Integers, Sequences, FiniteSets, TLC

\* ------------------------------------------------------------------ bounds
NumTasks == 2
MaxIds == 3
MaxSockets == 2
MaxRetries == 3
NumWorkers == 2
MaxEventIds == 2
CacheMax == 1
CacheTtl == 2
QueueMax == 2
MaxTime == 2
MaxArrivals == 3
\* The callbacks that are registered, and how many registrations are made.
NumCallbacks == 2
MaxHandlers == 3
\* The plugins of the bot, and the events its handlers are given.
NumPlugins == 3
MaxBotEvents == 3
CacheCap == 2
MaxKeys == 4
\* The mentions the bot is given, and how many times one is given to it.
MaxMentionIds == 2
MaxMentionCalls == 3

Tasks == 1..NumTasks

\* ---------------------------------------------------------------- constants
NoSocket == 0

\* Channel names a caller passes: two members of ChannelType and the empty name.
MAIN == "main"
Names == {"", MAIN, "chatUser"}

\* Parameter maps a caller passes (None, the empty map, one non-empty map).
ParamArgs == {"None", "{}", "{other:a}"}

\* The (name, params) arguments a caller passes to connect_channel.
ChannelArgs ==
    {<<"", "None">>, <<MAIN, "None">>, <<MAIN, "{}">>,
     <<"chatUser", "{other:a}">>, <<"chatUser", "{other:b}">>}

\* Instance addresses given to the constructor: the text before "://" (none
\* when the address has no "://") and the rest.
Url(scheme, rest) == [scheme |-> scheme, rest |-> rest]
NoScheme == "(none)"
Urls == {Url("https", "example.test"), Url(NoScheme, "example.test"),
         Url("HTTPS", "example.test/"), Url("http", "example.test")}

VARIABLES
    instance_url,        \* self.instance_url
    ws_max_retries,      \* the configured WS_MAX_RETRIES
    ws_connection,       \* self.ws_connection: NoSocket (None) or a socket id
    open_socks,          \* the sockets that are open (.closed is false)
    running,             \* self.running
    should_reconnect,    \* self.should_reconnect
    channels,            \* self.channels, in dict (insertion) order
    cur,                 \* per task: the call it is in (or made last)
    processed_events,    \* self.processed_events (TTLCache), oldest first
    now,                 \* the clock the cache reads
    event_queue,         \* self._event_queue
    workers,             \* self._workers: the state of each worker task
    chat_channel_tasks,  \* self._chat_channel_tasks: peers with a live task
    hist,                \* what has been observed of the event pipeline
    event_handlers,      \* self.event_handlers: event type -> callbacks
    bot,                 \* what the bot's handlers have done with the events
    mentions             \* MisskeyBot: the mentions seen and the paths handling them

conn_vars == <<instance_url, ws_max_retries, ws_connection, open_socks,
               running, should_reconnect>>
reg_vars == <<channels>>
evt_vars == <<processed_events, now, event_queue, workers, chat_channel_tasks,
              hist>>
bot_vars == <<event_handlers, bot, mentions>>
vars == <<conn_vars, reg_vars, cur, evt_vars, bot_vars>>

\* ------------------------------------------------------------------ helpers

\* self.event_handlers after construction: an empty dict.
NoHandlers == [e \in {} |-> <<>>]

\* The record of how the bot handled an event.  op: "mention" or
\* "notification".  input: what the event was, or what the plugin manager
\* did with it.  results: what on_mention returned, in order.  invoked: the
\* plugins whose hook ran, in order.  applied: the position of the result
\* that was applied (0: none).  default: _generate_ai_response was called.
\* kind, exc: how handle() ended.  logged: it logged an exception.
Handling(op, input, results, invoked, applied, default, kind, exc, logged) ==
    [op |-> op, input |-> input, results |-> results, invoked |-> invoked,
     applied |-> applied, default |-> default, kind |-> kind, exc |-> exc,
     logged |-> logged]
NoHandling == Handling("none", "", <<>>, <<>>, 0, FALSE, "none", "", FALSE)

\* The bot before any event: n events handled, failed of them notifications
\* whose handling failed, last the latest handling.
InitBot == [n |-> 0, failed |-> 0, last |-> NoHandling]

\* MisskeyBot after start(): no mention processed, in the deque
\* (processed_mentions) or in the database (db); the WebSocket path and the
\* polling path idle.  calls counts the mentions the paths were given, marks
\* and replies per mention the mark_mention_processed and generate_reply
\* calls made for it.
MentionIds == 1..MaxMentionIds
Paths == {"ws", "poll"}
InitMentions ==
    [processed |-> {}, db |-> {},
     pc |-> [p \in Paths |-> "idle"], note |-> [p \in Paths |-> 0],
     calls |-> 0,
     marks |-> [i \in MentionIds |-> 0], replies |-> [i \in MentionIds |-> 0]]

\* The client object, as the value the operators below transform.
Self ==
    [ws_connection |-> ws_connection, open_socks |-> open_socks,
     running |-> running, should_reconnect |-> should_reconnect,
     channels |-> channels, processed_events |-> processed_events,
     event_queue |-> event_queue, workers |-> workers,
     chat_channel_tasks |-> chat_channel_tasks, hist |-> hist]

\* params or {}  (streaming.py:146, :217)
EffectiveParams(p) == IF p \in {"None", "{}"} THEN "{}" ELSE p

\* As WsAvailable, a held handle counting whether or not its socket is closed.
WsAvailableHandleOnly(s) == s.ws_connection # NoSocket

\* The _ws_available property.
WsAvailable(s) ==
    s.ws_connection # NoSocket /\ s.ws_connection \in s.open_socks

\* As ExistingChannels, the parameter maps compared by identity: the map of a
\* new call is never the recorded one.
ExistingChannelsByIdentity(s, name, eparams) ==
    SelectSeq(s.channels, LAMBDA c : c.name = name /\ FALSE)

\* The registry entries with this name and parameter map, in dict order.
ExistingChannels(s, name, eparams) ==
    SelectSeq(s.channels, LAMBDA c : c.name = name /\ c.params = eparams)

IdsOf(chs) == {chs[i].id : i \in 1..Len(chs)}

\* del self.channels[channel_id] / self.channels.pop(channel_id, None)
RemoveId(chs, id) == SelectSeq(chs, LAMBDA c : c.id # id)

Frame(type, id, name, eparams, sock) ==
    [type |-> type, id |-> id, channel |-> name, params |-> eparams,
     sock |-> sock]

SockOp(what, scheme) == [op |-> what, scheme |-> scheme]

\* A channel spec of connect_once / connect: (name, params).
ChannelSpec(n, p) == [name |-> n, params |-> p]

\* _channel_name(spec) is its name; a falsy spec or an empty name is dropped.
NormalizeChannelSpecs(specs) == SelectSeq(specs, LAMBDA c : c.name # "")

\* ------------------------------------------------------------------ events

\* The identifiers of the events the server delivers, and the chat peers.
EventIds == 1..MaxEventIds
Peers == {"a"}

\* The channel event with identifier i: the first is a chat message from a
\* peer, the others are mentions.
EventOf(i) ==
    [id |-> i, kind |-> IF i = 1 THEN "chat" ELSE "mention",
     peer |-> IF i = 1 THEN "a" ELSE ""]

\* A queue item: the event, with the number of its admission (n) and what
\* was known of its identifier when it was admitted.  fresh: no entry of the
\* identifier was then in the cache unexpired, unevicted and uncleared;
\* window: none had been inserted less than the TTL before.
Item(e, n, fresh, window) ==
    [id |-> e.id, kind |-> e.kind, n |-> n, fresh |-> fresh, window |-> window]

NoItem == [id |-> 0, kind |-> "", n |-> 0, fresh |-> TRUE, window |-> TRUE]

\* The None that releases a worker at shutdown.
Sentinel == [NoItem EXCEPT !.kind = "None"]

\* A worker task: waiting in queue.get(), busy with an item (after: the
\* number of the item dequeued before it), or exited.
WaitingWorker == [st |-> "waiting", item |-> NoItem, after |-> 0]

\* The observations: per identifier the time of its last insertion into the
\* cache (-1: none) and whether that entry has since been evicted for
\* capacity or cleared; the last decision of the dedup gate; the number of
\* admissions; the number of the item dequeued last; per peer the state of
\* its chat-channel task; the socket held at the last admission; per peer
\* the number of its chat-channel tasks created and not yet ended.
\* A gate decision: the identifier that arrived, how its last insertion
\* stood then (new: there was none; live: inserted less than the TTL before
\* and neither evicted nor cleared; lost: inserted less than the TTL before
\* but evicted or cleared; expired: inserted at least the TTL before), and
\* what became of the event (dup, queued, waiting, dropped).
Gate(id, was, out) == [id |-> id, was |-> was, out |-> out]
NoGate == Gate(0, "none", "none")
InitHist ==
    [mark |-> [i \in EventIds |-> -1], gone |-> [i \in EventIds |-> FALSE],
     gate |-> NoGate, n |-> 0, last_deq |-> 0,
     tasks |-> [p \in Peers |-> "none"], sock |-> 0,
     live |-> [p \in Peers |-> 0]]

\* How the last insertion of identifier i stands at time t.
Standing(h, i, t) ==
    IF h.mark[i] = -1 THEN "new"
    ELSE IF t >= h.mark[i] + CacheTtl THEN "expired"
    ELSE IF h.gone[i] THEN "lost"
    ELSE "live"

\* ------------------------------------------------------------ task records

\* op, name, params, specs, reconnect: the call and its arguments.  pc: where
\* the coroutine is suspended.  cid, todo, i, size0, sock, retry_count: its
\* locals.  kind, exc, val: how it ended.  The rest records what the call did:
\* the frames its sends delivered, the socket operations it attempted, its
\* backoff sleeps, the registry it began with, and whether another task ran
\* since it began.  item: the queue item a put is suspended with.  busy0: the
\* call began holding a socket, with entries in the registry and in the cache
\* and with a chat-channel task alive.  id, event_type: the channel_id and
\* event_type arguments.  live0: the socket was available when the call began.
\* got: what the last receive of the read loop delivered, when the loop went
\* on after it ("timeout", or "skipped" for a message it logged and skipped).
IdleTask ==
    [op |-> "none", pc |-> "idle", name |-> "", params |-> "None",
     specs |-> <<>>, reconnect |-> TRUE,
     cid |-> 0, todo |-> <<>>, i |-> 0, size0 |-> 0, sock |-> 0,
     retry_count |-> 0,
     kind |-> "none", exc |-> "", val |-> 0,
     frames |-> <<>>, sockops |-> <<>>, sleeps |-> 0, opened |-> FALSE,
     solo |-> TRUE, prev_id |-> 0, existed |-> FALSE, reg0 |-> <<>>,
     fresh |-> FALSE, item |-> NoItem, busy0 |-> FALSE,
     id |-> 0, event_type |-> "", live0 |-> FALSE, got |-> ""]

\* The record of a call that begins now.  prev_id is the identifier the same
\* task's previous call returned, when that call was connect_channel with the
\* same name and parameters and no other task has run since it began.
NewCall(t, op, n, p) ==
    [IdleTask EXCEPT
        !.op = op, !.name = n, !.params = p, !.kind = "run",
        !.reg0 = IF op = "connect" THEN <<>> ELSE channels,
        !.fresh = ~running,
        !.live0 = ws_connection # NoSocket /\ ws_connection \in open_socks,
        !.busy0 = /\ op \in {"close", "disconnect"} /\ ws_connection # NoSocket
                  /\ channels # <<>> /\ processed_events # <<>>
                  /\ chat_channel_tasks # {},
        !.prev_id = IF /\ cur[t].op = "connect_channel"
                       /\ op = "connect_channel"
                       /\ cur[t].kind = "return"
                       /\ cur[t].solo
                       /\ cur[t].name = n
                       /\ EffectiveParams(cur[t].params) = EffectiveParams(p)
                    THEN cur[t].val ELSE 0]

\* The locals of a coroutine (or of an inner call) that has ended are gone.
NoLocals(r) ==
    [r EXCEPT !.cid = 0, !.todo = <<>>, !.i = 0, !.size0 = 0, !.sock = 0,
              !.item = NoItem,
              !.name = IF r.op \in {"connect", "connect_once"} THEN "" ELSE @,
              !.params = IF r.op \in {"connect", "connect_once"} THEN "None" ELSE @]

Return(r, v) == [NoLocals(r) EXCEPT !.pc = "idle", !.kind = "return", !.val = v]
Raise(r, e) == [NoLocals(r) EXCEPT !.pc = "idle", !.kind = "raise", !.exc = e]
\* A connect() call runs for the client's lifetime: its frames are not
\* recorded, and its socket operations and sleeps are recorded while none of
\* its socket opens has succeeded (r.opened is false).
Sent(r, f) == IF r.op = "connect" THEN r ELSE [r EXCEPT !.frames = Append(@, f)]
Did(r, what, scheme) ==
    IF r.op = "connect" /\ r.opened THEN r
    ELSE [r EXCEPT !.sockops = Append(@, SockOp(what, scheme))]
Slept(r) ==
    IF r.op = "connect" /\ r.opened THEN r ELSE [r EXCEPT !.sleeps = @ + 1]

\* The task whose calls are recorded in full.  The records of the other tasks
\* keep what their coroutines need to go on, and how their calls ended.
Caller == CHOOSE t \in Tasks : \A u \in Tasks : t <= u

Unrecorded(r) ==
    [r EXCEPT !.frames = <<>>, !.sockops = <<>>, !.reg0 = <<>>, !.sleeps = 0,
              !.opened = FALSE, !.prev_id = 0, !.existed = FALSE,
              !.fresh = FALSE, !.busy0 = FALSE, !.live0 = FALSE, !.got = ""]

\* A segment's result: the client after it and the task's record after it.
Out(s, r) == [s |-> s, r |-> r]

\* Task t has run a segment with result o.  Every other task has now been
\* interleaved with: the record of a call it is in notes that, and the record
\* of a call it has finished (read by its caller at the return) is dropped.
Apply(t, o) ==
    /\ ws_connection' = o.s.ws_connection
    /\ open_socks' = o.s.open_socks
    /\ running' = o.s.running
    /\ should_reconnect' = o.s.should_reconnect
    /\ channels' = o.s.channels
    /\ processed_events' = o.s.processed_events
    /\ event_queue' = o.s.event_queue
    /\ workers' = o.s.workers
    /\ chat_channel_tasks' = o.s.chat_channel_tasks
    /\ hist' = o.s.hist
    /\ cur' = [u \in Tasks |->
                IF u = t THEN (IF t = Caller THEN o.r ELSE Unrecorded(o.r))
                ELSE IF cur[u].pc = "idle" THEN IdleTask
                ELSE [cur[u] EXCEPT !.solo = FALSE]]
    /\ UNCHANGED <<instance_url, ws_max_retries, now, bot_vars>>

\* The identifiers a task's record refers to.
RecordIds(r) ==
    {r.cid, r.val, r.prev_id} \cup IdsOf(r.reg0)
    \cup {r.frames[i].id : i \in 1..Len(r.frames)}
    \cup (IF r.op = "disconnect_channel"
          THEN {r.todo[i] : i \in 1..Len(r.todo)} ELSE {})

\* The sockets a task's record refers to.
RecordSocks(r) == {r.sock} \cup {r.frames[i].sock : i \in 1..Len(r.frames)}

\* uuid.uuid4(): an identifier nothing refers to.  The model draws it from
\* 1..MaxIds; MaxIds + 1 stands for a draw the bound does not allow.
FreshId(s) ==
    LET used == IdsOf(s.channels) \cup UNION {RecordIds(cur[t]) : t \in Tasks}
        free == (1..MaxIds) \ used
    IN  IF free = {} THEN MaxIds + 1
        ELSE CHOOSE i \in free : \A j \in free : i <= j

\* The socket transport.ws_connect returns: one nothing refers to, drawn
\* from 1..MaxSockets (MaxSockets + 1: the bound does not allow it).
FreshSocket(s) ==
    LET used == {s.ws_connection} \cup s.open_socks
                \cup UNION {RecordSocks(cur[t]) : t \in Tasks}
        free == (1..MaxSockets) \ used
    IN  IF free = {} THEN MaxSockets + 1
        ELSE CHOOSE i \in free : \A j \in free : i <= j

\* The model's bounds on identifiers and on sockets.
WithinBounds(o) ==
    /\ o.r.cid <= MaxIds
    /\ \A i \in 1..Len(o.s.channels) : o.s.channels[i].id <= MaxIds
    /\ o.s.ws_connection <= MaxSockets

Idle(t) == cur[t].pc = "idle"
At(t, pc) == cur[t].pc = pc

\* What an awaited send_json does: it returns, or it raises a transport error.
SendOutcomes == {"ok", "error"}

\* ------------------------------------------------------------- construction

\* StreamingClient.__init__, for an instance address url, under a
\* configuration with WS_MAX_RETRIES = n.
InitClient(url, n) ==
    /\ instance_url = url
    /\ ws_max_retries = n
    /\ ws_connection = NoSocket
    /\ open_socks = {}
    /\ running = FALSE
    /\ should_reconnect = TRUE
    /\ channels = <<>>
    /\ cur = [t \in Tasks |-> IdleTask]
    /\ processed_events = <<>>
    /\ now = 0
    /\ event_queue = <<>>
    /\ workers = <<>>
    /\ chat_channel_tasks = {}
    /\ hist = InitHist
    /\ event_handlers = NoHandlers
    /\ bot = InitBot
    /\ mentions = InitMentions

\* ---------------------------------------------------------- connect_channel

\* The call up to its first await: the identifier of an existing subscription,
\* an error, or a subscribe frame handed to send_json under a fresh identifier.
ConnectChannelCall(s, r, n, p) ==
    LET existing == ExistingChannels(s, n, EffectiveParams(p))
        rc == [r EXCEPT !.name = n, !.params = p]
    IN  IF n = "" THEN Out(s, Raise(rc, "ValueError"))
        ELSE IF existing # <<>>
        THEN Out(s, Return([rc EXCEPT !.existed = TRUE], existing[1].id))
        ELSE IF ~WsAvailable(s)
        THEN Out(s, Raise(rc, "WebSocketConnectionError"))
        ELSE Out(s, [Did(rc, "send", "") EXCEPT
                        !.pc = "cc_send", !.cid = FreshId(s),
                        !.sock = s.ws_connection])

\* self.channels[channel_id] = {"name": ..., "params": ...}
RecordChannel(chs, id, n, ep) ==
    Append(chs, [id |-> id, name |-> n, params |-> ep])

\* send_json has returned (the subscription is recorded) or raised.
ConnectChannelSent(s, r, o) ==
    LET ep == EffectiveParams(r.params)
    IN  IF o = "ok"
        THEN Out([s EXCEPT !.channels = RecordChannel(@, r.cid, r.name, ep)],
                 Return(Sent(r, Frame("connect", r.cid, r.name, ep, r.sock)),
                        r.cid))
        ELSE Out(s, Raise(r, "ClientError"))

\* ------------------------------------------------------------------ connect

\* str.lower() on the schemes of Urls.
Lower(x) == IF x = "HTTPS" THEN "https" ELSE x

\* As UrlScheme, every address accepted as secure.
UrlSchemeUnchecked(u) == "https"

\* urlsplit(raw).scheme, lower-cased, of the address _connect_websocket builds:
\* an address without "://" is given https://.
UrlScheme(u) == Lower(IF u.scheme = NoScheme THEN "https" ELSE u.scheme)

\* The scheme of the URL handed to transport.ws_connect.
WsUrlScheme(u) == "wss"

\* As ConnectExcept, giving up only once the counter exceeds the maximum.
ConnectExceptOffByOne(s, r, e) ==
    IF e \in {"WebSocketConnectionError", "WebSocketReconnectError"}
    THEN LET rc == [r EXCEPT !.retry_count = @ + 1]
         IN  IF ~r.reconnect \/ rc.retry_count > ws_max_retries
             THEN Out(s, Raise(rc, e))
             ELSE Out([s EXCEPT !.running = FALSE, !.channels = <<>>],
                      [Slept(NoLocals(rc)) EXCEPT !.pc = "sleep"])
    ELSE Out(s, Raise(r, e))

\* As ConnectExcept, the reconnect-needed condition of the read loop not being
\* a connection error.
ConnectExceptConnectionOnly(s, r, e) ==
    IF e = "WebSocketConnectionError"
    THEN LET rc == [r EXCEPT !.retry_count = @ + 1]
         IN  IF ~r.reconnect \/ rc.retry_count >= ws_max_retries
             THEN Out(s, Raise(rc, e))
             ELSE Out([s EXCEPT !.running = FALSE, !.channels = <<>>],
                      [Slept(NoLocals(rc)) EXCEPT !.pc = "sleep"])
    ELSE Out(s, Raise(r, e))

\* As ConnectExcept, the dedup cache emptied on the way to the backoff sleep.
ConnectExceptClearingCache(s, r, e) ==
    IF e \in {"WebSocketConnectionError", "WebSocketReconnectError"}
    THEN LET rc == [r EXCEPT !.retry_count = @ + 1]
         IN  IF ~r.reconnect \/ rc.retry_count >= ws_max_retries
             THEN Out(s, Raise(rc, e))
             ELSE Out([s EXCEPT !.running = FALSE, !.channels = <<>>,
                                !.processed_events = <<>>],
                      [Slept(NoLocals(rc)) EXCEPT !.pc = "sleep"])
    ELSE Out(s, Raise(r, e))

\* The except clause of connect(): a connection error (WebSocketReconnectError
\* is one) is counted and, with retries left, followed by the backoff sleep;
\* anything else is not caught.
ConnectExcept(s, r, e) ==
    IF e \in {"WebSocketConnectionError", "WebSocketReconnectError"}
    THEN LET rc == [r EXCEPT !.retry_count = @ + 1]
         IN  IF ~r.reconnect \/ rc.retry_count >= ws_max_retries
             THEN Out(s, Raise(rc, e))
             ELSE Out([s EXCEPT !.running = FALSE, !.channels = <<>>],
                      [Slept(NoLocals(rc)) EXCEPT !.pc = "sleep"])
    ELSE Out(s, Raise(r, e))

\* The head of the while loop of _listen_messages.
ListenLoop(s, r) ==
    IF ~s.running THEN Out(s, Return(r, 0))
    ELSE IF ~WsAvailable(s) THEN ConnectExcept(s, r, "WebSocketReconnectError")
    ELSE Out(s, [NoLocals(r) EXCEPT !.pc = "listen", !.sock = s.ws_connection])

\* As ConnectOnceReturn, connect() not resetting its retry counter.
ConnectOnceReturnNoReset(s, r) ==
    IF r.op = "connect" THEN ListenLoop(s, [r EXCEPT !.kind = "run"])
    ELSE Out(s, Return(r, 0))

\* connect_once returns: to its caller, or into connect(), which resets the
\* retry counter and listens.
ConnectOnceReturn(s, r) ==
    IF r.op = "connect"
    THEN ListenLoop(s, [r EXCEPT !.retry_count = 0, !.kind = "run"])
    ELSE Out(s, Return(r, 0))

\* connect_once raises: to its caller, or into the except clause of connect().
ConnectOnceRaise(s, r, e) ==
    IF r.op = "connect" THEN ConnectExcept(s, [r EXCEPT !.kind = "run"], e)
    ELSE Out(s, Raise(r, e))

\* The for loop of connect_once over the channels left in r.todo: it runs
\* until a connect_channel call awaits its send, or raises, or none is left.
RECURSIVE ConnectOnceLoop(_, _)
ConnectOnceLoop(s, r) ==
    IF r.todo = <<>> THEN ConnectOnceReturn(s, r)
    ELSE LET c == ConnectChannelCall(s, r, Head(r.todo).name, Head(r.todo).params)
         IN  IF c.r.kind = "return"
             THEN ConnectOnceLoop(c.s, [r EXCEPT !.todo = Tail(@)])
             ELSE IF c.r.kind = "raise" THEN ConnectOnceRaise(s, r, c.r.exc)
             ELSE c

\* As Requested, main added after the requested channels.
RequestedMainLast(specs) ==
    LET req == NormalizeChannelSpecs(specs)
    IN  IF \E i \in 1..Len(req) : req[i].name = MAIN THEN req
        ELSE req \o <<ChannelSpec(MAIN, "None")>>

\* The channels connect_once subscribes: the requested ones, after main when
\* none of them is main.
Requested(specs) ==
    LET req == NormalizeChannelSpecs(specs)
    IN  IF \E i \in 1..Len(req) : req[i].name = MAIN THEN req
        ELSE <<ChannelSpec(MAIN, "None")>> \o req

\* As EnsureWorkersStarted, a pool started at every call.
EnsureWorkersStartedAlways(s) ==
    [s EXCEPT !.workers = @ \o [w \in 1..NumWorkers |-> WaitingWorker]]

\* _ensure_workers_started(): the pool is started unless it already is.
EnsureWorkersStarted(s) ==
    IF s.workers # <<>> THEN s
    ELSE [s EXCEPT !.workers = [w \in 1..NumWorkers |-> WaitingWorker]]

\* As ConnectOnceCall, without the test of the running flag.
ConnectOnceCallAlways(s, r) ==
    LET s1 == EnsureWorkersStarted([s EXCEPT !.running = TRUE])
    IN  IF UrlScheme(instance_url) # "https"
        THEN ConnectOnceRaise(s1, r, "ValueError")
        ELSE Out(s1, [Did(NoLocals(r), "open", WsUrlScheme(instance_url))
                        EXCEPT !.pc = "co_open"])

\* connect_once up to its first await, the socket open of _connect_websocket.
ConnectOnceCall(s, r) ==
    IF s.running THEN ConnectOnceReturn(s, r)
    ELSE LET s1 == EnsureWorkersStarted([s EXCEPT !.running = TRUE])
         IN  IF UrlScheme(instance_url) # "https"
             THEN ConnectOnceRaise(s1, r, "ValueError")
             ELSE Out(s1, [Did(NoLocals(r), "open", WsUrlScheme(instance_url))
                             EXCEPT !.pc = "co_open"])

\* _close_websocket() up to its await: an open socket is closed (its closed
\* flag is set at once; the close handshake is awaited).
CloseWebsocketCall(s) == [s EXCEPT !.open_socks = @ \ {s.ws_connection}]

\* transport.ws_connect has returned a socket, or raised.
ConnectOnceOpened(s, r, o) ==
    IF o = "ok"
    THEN ConnectOnceLoop(
            [s EXCEPT !.ws_connection = FreshSocket(s),
                      !.open_socks = @ \cup {FreshSocket(s)}],
            [r EXCEPT !.todo = Requested(r.specs), !.opened = TRUE,
                      !.sockops = IF r.op = "connect" THEN <<>> ELSE @,
                      !.sleeps = IF r.op = "connect" THEN 0 ELSE @])
    ELSE IF WsAvailable(s)
    THEN Out(CloseWebsocketCall(s),
             [Did(r, "close", "") EXCEPT !.pc = "co_cleanup"])
    ELSE ConnectOnceRaise([s EXCEPT !.ws_connection = NoSocket], r,
                          "WebSocketConnectionError")

\* The close of _cleanup_failed_connection has returned.
ConnectOnceCleaned(s, r) ==
    ConnectOnceRaise([s EXCEPT !.ws_connection = NoSocket], r,
                     "WebSocketConnectionError")

\* The send of a connect_channel call made by connect_once has returned.
ConnectOnceSent(s, r, o) ==
    LET c == ConnectChannelSent(s, r, o)
    IN  IF c.r.kind = "return"
        THEN ConnectOnceLoop(c.s, [r EXCEPT !.frames = c.r.frames,
                                            !.todo = Tail(@)])
        ELSE ConnectOnceRaise(s, r, c.r.exc)

\* As ConnectLoop, the next attempt made whatever the flag says.
ConnectLoopUnconditional(s, r) == ConnectOnceCall(s, r)

\* The head of the while loop of connect().
ConnectLoop(s, r) ==
    IF ~s.should_reconnect THEN Out(s, Return(r, 0))
    ELSE ConnectOnceCall(s, r)

\* connect(channels, reconnect=...) up to its first await.
ConnectCall(s, r) ==
    ConnectLoop([s EXCEPT !.should_reconnect = r.reconnect],
                [r EXCEPT !.specs = NormalizeChannelSpecs(r.specs),
                          !.retry_count = 0])

\* What an awaited receive() delivers to _listen_messages.
\*   timeout: wait_for gave up.            error: the transport raised.
\*   closed:  a CLOSED/CLOSING/ERROR message, the socket now closed.
\*   closing: such a message, the socket not (yet) closed.
\*   badjson: a TEXT message json.loads rejects.
\*   ignored: a TEXT message whose type is not "channel", or no TEXT message.
\*   notdict: a TEXT message that decodes to an empty value or to no dict.
\*   badfields: a channel message that _handle_channel_message rejects with
\*            ValueError, TypeError, AttributeError or KeyError.
ReceiveOutcomes ==
    {"timeout", "error", "closed", "closing", "badjson", "ignored", "notdict",
     "badfields"}

\* The messages the read loop logs and skips.
Skipped == {"notdict", "badfields"}

\* As ListenReceived, the receive timeout handled by the clause that
\* catches OSError.
ListenReceivedTimeoutAsError(s, r, o) ==
    CASE o \in {"ignored"} \cup Skipped ->
            ListenLoop(s, [r EXCEPT !.got = IF o = "ignored" THEN "" ELSE "skipped"])
      [] o = "closed" ->
            ConnectExcept([s EXCEPT !.open_socks = @ \ {r.sock}],
                          [r EXCEPT !.got = ""], "WebSocketReconnectError")
      [] OTHER -> ConnectExcept(s, [r EXCEPT !.got = ""], "WebSocketReconnectError")

\* As ListenReceived, a message that _handle_channel_message rejects not
\* caught by the read loop's last except clause.
ListenReceivedUncaught(s, r, o) ==
    CASE o \in {"timeout", "ignored", "notdict"} ->
            ListenLoop(s, [r EXCEPT !.got = IF o = "ignored" THEN "" ELSE
                                             IF o = "timeout" THEN o ELSE "skipped"])
      [] o = "closed" ->
            ConnectExcept([s EXCEPT !.open_socks = @ \ {r.sock}],
                          [r EXCEPT !.got = ""], "WebSocketReconnectError")
      [] o = "badfields" -> Out(s, Raise([r EXCEPT !.got = ""], "ValueError"))
      [] OTHER -> ConnectExcept(s, [r EXCEPT !.got = ""], "WebSocketReconnectError")

\* receive() has returned or raised inside _listen_messages.
ListenReceived(s, r, o) ==
    CASE o \in {"timeout", "ignored"} \cup Skipped ->
            ListenLoop(s, [r EXCEPT !.got = IF o = "ignored" THEN "" ELSE
                                             IF o = "timeout" THEN o ELSE "skipped"])
      [] o = "closed" ->
            ConnectExcept([s EXCEPT !.open_socks = @ \ {r.sock}],
                          [r EXCEPT !.got = ""], "WebSocketReconnectError")
      [] OTHER -> ConnectExcept(s, [r EXCEPT !.got = ""], "WebSocketReconnectError")

\* -------------------------------------------------------------- dedup cache

\* processed_events is a TTLCache(maxsize=CacheMax, ttl=CacheTtl): its
\* entries in insertion order, each with the time it expires at.
Keys(c) == {c[i].key : i \in 1..Len(c)}

\* TTLCache.expire(time): the entries with expires <= time are removed.
CacheExpire(c, t) == SelectSeq(c, LAMBDA e : t < e.expires)

\* As CacheContains, an entry counting for as long as it is stored.
CacheContainsStored(c, k, t) == k \in Keys(c)

\* key in cache: the key is stored and its entry has not expired.
CacheContains(c, k, t) == \E i \in 1..Len(c) : c[i].key = k /\ t < c[i].expires

\* As CacheSet, the entry expiring at once.
CacheSetNoTtl(c, k, t) ==
    Append(SelectSeq(CacheExpire(c, t), LAMBDA e : e.key # k),
           [key |-> k, expires |-> t])

\* As TTLCacheSet, the newest entries evicted when the cache is full.
TTLCacheSetNewest(c, k, t, maxsize) ==
    LET live == CacheExpire(c, t)
        rest == SelectSeq(live, LAMBDA e : e.key # k)
        kept == IF k \notin Keys(live) /\ Len(live) >= maxsize
                THEN SubSeq(live, 1, maxsize - 1)
                ELSE rest
    IN  Append(kept, [key |-> k, expires |-> t + CacheTtl])

\* cache[key] = True at time t on a TTLCache(maxsize, CacheTtl): expired
\* entries are removed, then the oldest entries while a new key finds the
\* cache full; the key's entry is the newest, expiring at t + ttl.
TTLCacheSet(c, k, t, maxsize) ==
    LET live == CacheExpire(c, t)
        rest == SelectSeq(live, LAMBDA e : e.key # k)
        kept == IF k \notin Keys(live) /\ Len(live) >= maxsize
                THEN SubSeq(live, Len(live) - maxsize + 2, Len(live))
                ELSE rest
    IN  Append(kept, [key |-> k, expires |-> t + CacheTtl])

\* processed_events[key] = True at time t.
CacheSet(c, k, t) == TTLCacheSet(c, k, t, CacheMax)

\* processed_events.clear(); every entry inserted so far is noted as gone.
CacheClear(s) ==
    [s EXCEPT !.processed_events = <<>>,
              !.hist.gone = [i \in EventIds |-> TRUE]]

\* -------------------------------------------------------------- event queue

\* As QueueGet, the newest item first.
QueueGetNewest(q) == [item |-> q[Len(q)], rest |-> SubSeq(q, 1, Len(q) - 1)]

\* As QueueFull, a queue without a maximum size.
QueueFullNever(q) == FALSE

\* asyncio.Queue: put_nowait appends, get_nowait takes the oldest item.
QueuePut(q, x) == Append(q, x)
QueueGet(q) == [item |-> Head(q), rest |-> Tail(q)]
QueueFull(q) == Len(q) >= QueueMax

\* ------------------------------------------------------- channel messages

\* The put of an admitted event: at once when the queue has room, else the
\* read loop waits for room, up to the put timeout.
EnqueueEvent(s, r, item) ==
    IF ~QueueFull(s.event_queue)
    THEN ListenLoop([s EXCEPT !.event_queue = QueuePut(@, item),
                              !.hist.gate.out = "queued"], r)
    ELSE Out([s EXCEPT !.hist.gate.out = "waiting"],
             [r EXCEPT !.pc = "put_wait", !.item = item])

\* As PutEnded, the timeout of the put unwinding the read loop as a
\* reconnect-needed condition.
PutEndedRaising(s, r, o) ==
    IF o = "room"
    THEN ListenLoop([s EXCEPT !.event_queue = QueuePut(@, r.item),
                              !.hist.gate.out = "queued"], r)
    ELSE ConnectExcept([s EXCEPT !.hist.gate.out = "dropped"], r,
                       "WebSocketReconnectError")

\* The waiting put ends: room was made and the item is queued, or the
\* timeout fired and the event is dropped.  The read loop goes on.
PutEnded(s, r, o) ==
    IF o = "room"
    THEN ListenLoop([s EXCEPT !.event_queue = QueuePut(@, r.item),
                              !.hist.gate.out = "queued"], r)
    ELSE ListenLoop([s EXCEPT !.hist.gate.out = "dropped"], r)

\* As EnsureChatChannel, a task created for every chat message.
EnsureChatChannelAlways(s, e) ==
    IF e.kind # "chat" THEN s
    ELSE [s EXCEPT !.chat_channel_tasks = @ \cup {e.peer},
                   !.hist.tasks[e.peer] = "running",
                   !.hist.live[e.peer] = @ + 1]

\* The chat-channel task of a peer is created unless one is in the table.
EnsureChatChannel(s, e) ==
    IF e.kind # "chat" \/ e.peer \in s.chat_channel_tasks THEN s
    ELSE [s EXCEPT !.chat_channel_tasks = @ \cup {e.peer},
                   !.hist.tasks[e.peer] = "running",
                   !.hist.live[e.peer] = @ + 1]

\* The chat-channel task of peer p ends by itself: its entry is removed.
ChatTaskEnded(s, p) ==
    [s EXCEPT !.chat_channel_tasks = @ \ {p},
              !.hist.tasks[p] = "done",
              !.hist.live[p] = @ - 1]

\* _handle_channel_message for event e, received by the read loop: an
\* identifier found in the dedup cache is skipped; otherwise it is inserted
\* (with no await between the test and the insertion) and the event is put
\* on the queue.
HandleChannelMessage(s, r, e) ==
    LET h == s.hist
        was == Standing(h, e.id, now)
    IN  IF CacheContains(s.processed_events, e.id, now)
        THEN ListenLoop([s EXCEPT !.hist.gate = Gate(e.id, was, "dup")], r)
        ELSE LET c1 == CacheSet(s.processed_events, e.id, now)
                 evicted == Keys(CacheExpire(s.processed_events, now)) \ Keys(c1)
                 item == Item(e, h.n + 1, was # "live",
                              was \in {"new", "expired"})
                 s1 == [s EXCEPT
                          !.processed_events = c1,
                          !.hist.gate = Gate(e.id, was, "admitted"),
                          !.hist.n = @ + 1,
                          !.hist.sock = s.ws_connection,
                          !.hist.mark[e.id] = now,
                          !.hist.gone = [i \in EventIds |->
                                           IF i = e.id THEN FALSE
                                           ELSE @[i] \/ i \in evicted]]
             IN  EnqueueEvent(EnsureChatChannel(s1, e), r, item)

\* ------------------------------------------------------------------ workers

\* A waiting worker's queue.get() returns: the sentinel ends the worker, an
\* event is handed to the handlers.
WorkerGot(s, w) ==
    LET g == QueueGet(s.event_queue)
    IN  IF g.item.kind = "None"
        THEN [s EXCEPT !.event_queue = g.rest,
                       !.workers[w] = [WaitingWorker EXCEPT !.st = "exited"]]
        ELSE [s EXCEPT !.event_queue = g.rest,
                       !.workers[w] = [st |-> "busy", item |-> g.item,
                                       after |-> s.hist.last_deq],
                       !.hist.last_deq = g.item.n]

\* The handlers of a busy worker's item have returned.
WorkerHandled(s, w) == [s EXCEPT !.workers[w] = WaitingWorker]

\* -------------------------------------------------------------------- close

\* The tail of close(): the cache is cleared.
CloseFinish(s, r) == Out(CacheClear(s), Return(r, 0))

\* close() after its workers are stopped: _close_websocket(), which awaits
\* the close of an open socket, then transport.close_session(), awaited.
CloseSocket(s, r) ==
    IF WsAvailable(s)
    THEN Out(CloseWebsocketCall(s), [Did(r, "close", "") EXCEPT !.pc = "cl_close"])
    ELSE Out([s EXCEPT !.ws_connection = NoSocket],
             [r EXCEPT !.pc = "cl_session"])

\* The socket close of close() has returned: the handle is released.
CloseSocketClosed(s, r) ==
    Out([s EXCEPT !.ws_connection = NoSocket], [r EXCEPT !.pc = "cl_session"])

\* _stop_workers() once every sentinel is queued: the workers are joined.
StopWorkersJoin(s, r) ==
    IF \A w \in 1..Len(s.workers) : s.workers[w].st = "exited"
    THEN CloseSocket([s EXCEPT !.workers = <<>>], r)
    ELSE Out(s, [r EXCEPT !.pc = "cl_join"])

\* _stop_workers() with r.i sentinels left to put, one per worker: each is
\* put when the queue has room.
RECURSIVE StopWorkersLoop(_, _)
StopWorkersLoop(s, r) ==
    IF r.i = 0 THEN StopWorkersJoin(s, r)
    ELSE IF QueueFull(s.event_queue) THEN Out(s, [r EXCEPT !.pc = "cl_put"])
    ELSE StopWorkersLoop([s EXCEPT !.event_queue = QueuePut(@, Sentinel)],
                         [r EXCEPT !.i = @ - 1])

\* _stop_workers(): nothing to do when no worker was started.
StopWorkersCall(s, r) ==
    IF s.workers = <<>> THEN CloseSocket(s, r)
    ELSE StopWorkersLoop(s, [NoLocals(r) EXCEPT !.i = Len(s.workers)])

\* --------------------------------------------------------------- disconnect

\* _cancel_chat_channel_tasks(): every chat-channel task is cancelled and
\* dropped from the table.
CancelChatChannelTasks(s) ==
    [s EXCEPT !.chat_channel_tasks = {},
              !.hist.tasks = [p \in Peers |->
                                IF p \in s.chat_channel_tasks THEN "cancelled"
                                ELSE @[p]],
              !.hist.live = [p \in Peers |->
                               IF p \in s.chat_channel_tasks THEN @[p] - 1
                               ELSE @[p]]]

\* As DisconnectReturn, close() not stopping the workers.
DisconnectReturnNoStop(s, r) ==
    IF r.op = "close" THEN CloseSocket(s, r) ELSE Out(s, Return(r, 0))

\* disconnect() returns: to its caller, or into close().
DisconnectReturn(s, r) ==
    IF r.op = "close" THEN StopWorkersCall(s, r) ELSE Out(s, Return(r, 0))

\* The tail of disconnect(): the handle is released and the cache cleared.
DisconnectFinish(s, r) ==
    DisconnectReturn(CacheClear([s EXCEPT !.ws_connection = NoSocket]), r)

\* _close_websocket() as disconnect() calls it: an open socket is closed,
\* which is awaited; the handle is released either way.
DisconnectClose(s, r) ==
    IF WsAvailable(s)
    THEN Out(CloseWebsocketCall(s), [Did(r, "close", "") EXCEPT !.pc = "dis_close"])
    ELSE DisconnectFinish(s, r)

\* As DisconnectAllLoop, the registry left as it is after the last send.
DisconnectAllLoopNoClear(s, r) ==
    IF Len(s.channels) # r.size0 THEN Out(s, Raise(r, "RuntimeError"))
    ELSE IF r.i > Len(s.channels) \/ ~WsAvailable(s)
    THEN DisconnectClose(s, r)
    ELSE Out(s, [Did(r, "send", "") EXCEPT
                    !.pc = "dis_send", !.cid = s.channels[r.i].id,
                    !.sock = s.ws_connection])

\* _disconnect_all_channels() from the r.i-th key of self.channels on.  The
\* loop iterates the live dict: the iterator raises when the dict has changed
\* size.  With no socket available no iteration sends, and the registry is
\* cleared.
DisconnectAllLoop(s, r) ==
    IF Len(s.channels) # r.size0 THEN Out(s, Raise(r, "RuntimeError"))
    ELSE IF r.i > Len(s.channels) \/ ~WsAvailable(s)
    THEN DisconnectClose([s EXCEPT !.channels = <<>>], r)
    ELSE Out(s, [Did(r, "send", "") EXCEPT
                    !.pc = "dis_send", !.cid = s.channels[r.i].id,
                    !.sock = s.ws_connection])

\* As DisconnectCall, the chat-channel tasks left running.
DisconnectCallNoCancel(s, r) ==
    DisconnectAllLoop(
        [s EXCEPT !.should_reconnect = FALSE, !.running = FALSE],
        [r EXCEPT !.i = 1, !.size0 = Len(s.channels)])

\* disconnect() up to its first await.
DisconnectCall(s, r) ==
    DisconnectAllLoop(
        CancelChatChannelTasks([s EXCEPT !.should_reconnect = FALSE,
                                         !.running = FALSE]),
        [Did(r, "cancel", "") EXCEPT !.i = 1, !.size0 = Len(s.channels)])

\* As DisconnectSent, the error of a send leaving disconnect().
DisconnectSentRaising(s, r, o) ==
    IF o = "ok"
    THEN DisconnectAllLoop(s,
            [Sent(r, Frame("disconnect", r.cid, "", "", r.sock))
                EXCEPT !.i = @ + 1])
    ELSE Out(s, Raise(r, "ClientError"))

\* An unsubscribe send of _disconnect_all_channels has returned, or raised
\* (which is logged).
DisconnectSent(s, r, o) ==
    DisconnectAllLoop(s,
        [(IF o = "ok" THEN Sent(r, Frame("disconnect", r.cid, "", "", r.sock))
          ELSE r) EXCEPT !.i = @ + 1])

\* ------------------------------------------------------- disconnect_channel

\* The for loop of disconnect_channel over the identifiers left in r.todo: it
\* runs until a send is awaited, or a del raises, or none is left.
RECURSIVE DisconnectChannelLoop(_, _)
DisconnectChannelLoop(s, r) ==
    IF r.todo = <<>> THEN Out(s, Return(r, 0))
    ELSE IF WsAvailable(s)
    THEN Out(s, [Did(r, "send", "") EXCEPT
                    !.pc = "dc_send", !.cid = Head(r.todo),
                    !.sock = s.ws_connection])
    ELSE IF Head(r.todo) \notin IdsOf(s.channels)
    THEN Out(s, Raise(r, "KeyError"))
    ELSE DisconnectChannelLoop([s EXCEPT !.channels = RemoveId(@, Head(r.todo))],
                               [r EXCEPT !.todo = Tail(@)])

\* As ChannelsToRemove, stopping at the first match.
ChannelsToRemoveFirst(s, n) ==
    LET m == SelectSeq(s.channels, LAMBDA c : c.name = n)
    IN  IF m = <<>> THEN <<>> ELSE <<m[1].id>>

\* channels_to_remove: the identifiers recorded under the name, in dict order.
ChannelsToRemove(s, n) ==
    LET m == SelectSeq(s.channels, LAMBDA c : c.name = n)
    IN  [i \in 1..Len(m) |-> m[i].id]

\* disconnect_channel(name) up to its first await.
DisconnectChannelCall(s, r) ==
    IF r.name = "" THEN Out(s, Raise(r, "ValueError"))
    ELSE DisconnectChannelLoop(s, [r EXCEPT !.todo = ChannelsToRemove(s, r.name)])

\* An unsubscribe send of disconnect_channel has returned (the entry is then
\* deleted), or raised.
DisconnectChannelSent(s, r, o) ==
    IF o # "ok" THEN Out(s, Raise(r, "ClientError"))
    ELSE IF r.cid \notin IdsOf(s.channels)
    THEN Out(s, Raise(Sent(r, Frame("disconnect", r.cid, "", "", r.sock)),
                      "KeyError"))
    ELSE DisconnectChannelLoop(
            [s EXCEPT !.channels = RemoveId(@, r.cid)],
            [Sent(r, Frame("disconnect", r.cid, "", "", r.sock))
                EXCEPT !.todo = Tail(@)])

\* ---------------------------------------------------- disconnect_channel_id

\* The channel_id arguments a caller passes: 0 is the empty string.
IdArgs == 0..MaxIds

\* As DisconnectChannelIdCall, the entry kept when no frame can be sent.
DisconnectChannelIdCallOnlineOnly(s, r) ==
    IF r.id = 0 THEN Out(s, Return(r, 0))
    ELSE IF r.id \in IdsOf(s.channels) /\ WsAvailable(s)
    THEN Out(s, [Did(r, "send", "") EXCEPT
                    !.pc = "dci_send", !.cid = r.id, !.sock = s.ws_connection])
    ELSE Out(s, Return(r, 0))

\* disconnect_channel_id(id) up to its await: an empty id returns; a
\* registered id on an available socket is unsubscribed, which is awaited;
\* otherwise the id is popped from the registry at once.
DisconnectChannelIdCall(s, r) ==
    IF r.id = 0 THEN Out(s, Return(r, 0))
    ELSE IF r.id \in IdsOf(s.channels) /\ WsAvailable(s)
    THEN Out(s, [Did(r, "send", "") EXCEPT
                    !.pc = "dci_send", !.cid = r.id, !.sock = s.ws_connection])
    ELSE Out([s EXCEPT !.channels = RemoveId(@, r.id)], Return(r, 0))

\* The unsubscribe send of disconnect_channel_id has returned (the id is
\* then popped), or raised.
DisconnectChannelIdSent(s, r, o) ==
    IF o = "ok"
    THEN Out([s EXCEPT !.channels = RemoveId(@, r.id)],
             Return(Sent(r, Frame("disconnect", r.id, "", "", r.sock)), 0))
    ELSE Out(s, Raise(r, "ClientError"))

\* ----------------------------------------------------- send_channel_message

\* The (name, params, event_type) arguments a caller passes.
MessageArgs ==
    {<<"", "None", "read">>, <<MAIN, "None", "read">>, <<MAIN, "{}", "">>,
     <<"chatUser", "{other:a}", "read">>, <<"chatUser", "None", "read">>}

\* As FindChannelId, the name alone deciding.
FindChannelIdByName(s, n, ep) ==
    LET m == SelectSeq(s.channels, LAMBDA c : c.name = n)
    IN  IF m = <<>> THEN 0 ELSE m[1].id

\* _find_channel_id: the first identifier recorded under the name and the
\* parameter map, or None (0).
FindChannelId(s, n, ep) ==
    LET m == SelectSeq(s.channels, LAMBDA c : c.name = n /\ c.params = ep)
    IN  IF m = <<>> THEN 0 ELSE m[1].id

\* send_channel_message up to its await: nothing is done for an empty name
\* or event type, for a subscription that is not found, or (in
\* _send_channel_message) without an available socket.
SendChannelMessageCall(s, r) ==
    LET id == FindChannelId(s, r.name, EffectiveParams(r.params))
    IN  IF r.name = "" \/ r.event_type = "" THEN Out(s, Return(r, 0))
        ELSE IF id = 0 THEN Out(s, Return(r, 0))
        ELSE IF ~WsAvailable(s) THEN Out(s, Return(r, 0))
        ELSE Out(s, [Did(r, "send", "") EXCEPT
                        !.pc = "scm_send", !.cid = id, !.sock = s.ws_connection])

\* The send of the channel-message frame has returned, or raised.
SendChannelMessageSent(s, r, o) ==
    IF o = "ok"
    THEN Out(s, Return(Sent(r, Frame("ch", r.cid, "", "", r.sock)), 0))
    ELSE Out(s, Raise(r, "ClientError"))

\* ------------------------------------------------------------------ actions

\* The channel lists a caller passes to connect_once / connect.
SpecLists ==
    {<<>>,
     <<ChannelSpec("chatUser", "{other:a}")>>,
     <<ChannelSpec("", "None"), ChannelSpec(MAIN, "{}")>>,
     <<ChannelSpec("chatUser", "{other:b}"), ChannelSpec("chatUser", "{other:a}")>>}

\* A task calls connect_channel(n, p).
ConnectChannelBegin(t, n, p) ==
    /\ Idle(t)
    /\ LET o == ConnectChannelCall(Self, NewCall(t, "connect_channel", n, p), n, p)
       IN  WithinBounds(o) /\ Apply(t, o)

\* The send of a connect_channel call returns or raises.
ConnectChannelResume(t) ==
    /\ At(t, "cc_send") /\ cur[t].op = "connect_channel"
    /\ \E o \in SendOutcomes : Apply(t, ConnectChannelSent(Self, cur[t], o))

\* A task calls connect_once(specs).
ConnectOnceBegin(t, specs) ==
    /\ Idle(t)
    /\ LET r == [NewCall(t, "connect_once", "", "None") EXCEPT !.specs = specs]
           o == ConnectOnceCall(Self, r)
       IN  WithinBounds(o) /\ Apply(t, o)

\* The socket open of connect_once (or of connect) returns or raises.
ConnectOnceOpenResume(t) ==
    /\ At(t, "co_open")
    /\ \E x \in {"ok", "error"} :
         LET o == ConnectOnceOpened(Self, cur[t], x)
         IN  WithinBounds(o) /\ Apply(t, o)

\* The close of a failed connection's old socket returns.
ConnectOnceCleanupResume(t) ==
    /\ At(t, "co_cleanup")
    /\ Apply(t, ConnectOnceCleaned(Self, cur[t]))

\* A subscribe send of connect_once (or of connect) returns or raises.
ConnectOnceSendResume(t) ==
    /\ At(t, "cc_send") /\ cur[t].op \in {"connect_once", "connect"}
    /\ \E x \in SendOutcomes :
         LET o == ConnectOnceSent(Self, cur[t], x)
         IN  WithinBounds(o) /\ Apply(t, o)

\* A task calls connect(specs, reconnect=b).
ConnectBegin(t, specs, b) ==
    /\ Idle(t)
    /\ LET r == [NewCall(t, "connect", "", "None") EXCEPT
                    !.specs = specs, !.reconnect = b]
           o == ConnectCall(Self, r)
       IN  WithinBounds(o) /\ Apply(t, o)

\* The backoff sleep of connect() ends.
ConnectSleepResume(t) ==
    /\ At(t, "sleep")
    /\ LET o == ConnectLoop(Self, cur[t])
       IN  WithinBounds(o) /\ Apply(t, o)

\* The receive of _listen_messages returns x.
ListenResume(t, x) ==
    /\ At(t, "listen")
    /\ Apply(t, ListenReceived(Self, cur[t], x))

\* A task calls disconnect().
DisconnectBegin(t) ==
    /\ Idle(t)
    /\ Apply(t, DisconnectCall(Self, NewCall(t, "disconnect", "", "None")))

\* An unsubscribe send of disconnect() returns or raises.
DisconnectSendResume(t) ==
    /\ At(t, "dis_send")
    /\ \E x \in SendOutcomes : Apply(t, DisconnectSent(Self, cur[t], x))

\* The socket close of disconnect() returns.
DisconnectCloseResume(t) ==
    /\ At(t, "dis_close")
    /\ Apply(t, DisconnectFinish(Self, cur[t]))

\* A task calls disconnect_channel(n).
DisconnectChannelBegin(t, n) ==
    /\ Idle(t)
    /\ Apply(t, DisconnectChannelCall(Self, NewCall(t, "disconnect_channel", n, "None")))

\* An unsubscribe send of disconnect_channel returns or raises.
DisconnectChannelResume(t) ==
    /\ At(t, "dc_send")
    /\ \E x \in SendOutcomes : Apply(t, DisconnectChannelSent(Self, cur[t], x))

\* A task calls disconnect_channel_id(id).
DisconnectChannelIdBegin(t, id) ==
    /\ Idle(t)
    /\ Apply(t, DisconnectChannelIdCall(Self,
                    [NewCall(t, "disconnect_channel_id", "", "None")
                        EXCEPT !.id = id]))

\* The unsubscribe send of disconnect_channel_id returns or raises.
DisconnectChannelIdResume(t) ==
    /\ At(t, "dci_send")
    /\ \E x \in SendOutcomes : Apply(t, DisconnectChannelIdSent(Self, cur[t], x))

\* A task calls send_channel_message(n, e, body, params=p).
SendChannelMessageBegin(t, n, p, e) ==
    /\ Idle(t)
    /\ Apply(t, SendChannelMessageCall(Self,
                    [NewCall(t, "send_channel_message", n, p)
                        EXCEPT !.event_type = e]))

\* The send of send_channel_message returns or raises.
SendChannelMessageResume(t) ==
    /\ At(t, "scm_send")
    /\ \E x \in SendOutcomes : Apply(t, SendChannelMessageSent(Self, cur[t], x))

\* The connection is found closed (by the peer, or by the transport): the
\* socket's closed flag is set while the client still holds the handle.
SocketClosed ==
    /\ WsAvailable(Self)
    /\ open_socks' = open_socks \ {ws_connection}
    /\ UNCHANGED <<bot_vars, instance_url, ws_max_retries, ws_connection, running,
                   should_reconnect, reg_vars, cur, evt_vars>>

\* ----------------------------------------- the registry, one caller at a time

\* One task makes the calls, each after the one before has ended.  A failed
\* socket open then never finds an old socket to close: connect_once opens
\* one only when the client is not running, and a sequential caller leaves
\* the client not running only through disconnect(), which releases it.

Init == \E url \in Urls : InitClient(url, MaxRetries)

Next ==
    \/ \E l \in SpecLists : ConnectOnceBegin(Caller, l)
    \/ ConnectOnceOpenResume(Caller)
    \/ ConnectOnceSendResume(Caller)
    \/ \E a \in ChannelArgs : ConnectChannelBegin(Caller, a[1], a[2])
    \/ ConnectChannelResume(Caller)
    \/ \E n \in Names : DisconnectChannelBegin(Caller, n)
    \/ DisconnectChannelResume(Caller)
    \/ \E id \in IdArgs : DisconnectChannelIdBegin(Caller, id)
    \/ DisconnectChannelIdResume(Caller)
    \/ \E a \in MessageArgs : SendChannelMessageBegin(Caller, a[1], a[2], a[3])
    \/ SendChannelMessageResume(Caller)
    \/ DisconnectBegin(Caller)
    \/ DisconnectSendResume(Caller)
    \/ DisconnectCloseResume(Caller)
    \/ SocketClosed

Spec == Init /\ [][Next]_vars

\* ------------------------------------------- the registry, concurrent callers

\* The channels the racing callers ask for.
RaceArgs == {<<MAIN, "None">>, <<"chatUser", "{other:a}">>}

\* The client after connect_once() on a fresh client: socket 1 open, the
\* workers started, main subscribed under identifier 1.
InitRace ==
    /\ instance_url = Url("https", "example.test")
    /\ ws_max_retries = MaxRetries
    /\ ws_connection = 1
    /\ open_socks = {1}
    /\ running = TRUE
    /\ should_reconnect = TRUE
    /\ channels = <<[id |-> 1, name |-> MAIN, params |-> "{}"]>>
    /\ cur = [t \in Tasks |-> IdleTask]
    /\ processed_events = <<>>
    /\ now = 0
    /\ event_queue = <<>>
    /\ workers = [w \in 1..NumWorkers |-> WaitingWorker]
    /\ chat_channel_tasks = {}
    /\ hist = InitHist
    /\ event_handlers = NoHandlers
    /\ bot = InitBot
    /\ mentions = InitMentions

NextRace ==
    \/ \E t \in Tasks, a \in RaceArgs : ConnectChannelBegin(t, a[1], a[2])
    \/ \E t \in Tasks : ConnectChannelResume(t)
    \/ \E t \in Tasks, n \in {MAIN, "chatUser"} : DisconnectChannelBegin(t, n)
    \/ \E t \in Tasks : DisconnectChannelResume(t)
    \/ \E t \in Tasks : DisconnectBegin(t)
    \/ \E t \in Tasks : DisconnectSendResume(t)
    \/ \E t \in Tasks : DisconnectCloseResume(t)
    \/ SocketClosed

SpecRace == InitRace /\ [][NextRace]_vars

\* -------------------------------------------- concurrent unsubscribing calls

\* The client after connect_once() and connect_channel("chatUser", other a):
\* socket 1 open, main under identifier 1, the chat channel under 2.
InitUnsub ==
    /\ instance_url = Url("https", "example.test")
    /\ ws_max_retries = MaxRetries
    /\ ws_connection = 1
    /\ open_socks = {1}
    /\ running = TRUE
    /\ should_reconnect = TRUE
    /\ channels = <<[id |-> 1, name |-> MAIN, params |-> "{}"],
                    [id |-> 2, name |-> "chatUser", params |-> "{other:a}"]>>
    /\ cur = [t \in Tasks |-> IdleTask]
    /\ processed_events = <<>>
    /\ now = 0
    /\ event_queue = <<>>
    /\ workers = [w \in 1..NumWorkers |-> WaitingWorker]
    /\ chat_channel_tasks = {}
    /\ hist = InitHist
    /\ event_handlers = NoHandlers
    /\ bot = InitBot
    /\ mentions = InitMentions

\* Every task may call disconnect_channel, disconnect_channel_id and
\* disconnect(); nothing subscribes meanwhile.
NextUnsub ==
    \/ \E t \in Tasks, n \in {MAIN, "chatUser"} : DisconnectChannelBegin(t, n)
    \/ \E t \in Tasks : DisconnectChannelResume(t)
    \/ \E t \in Tasks, id \in 1..2 : DisconnectChannelIdBegin(t, id)
    \/ \E t \in Tasks : DisconnectChannelIdResume(t)
    \/ \E t \in Tasks : DisconnectBegin(t)
    \/ \E t \in Tasks : DisconnectSendResume(t)
    \/ \E t \in Tasks : DisconnectCloseResume(t)

SpecUnsub == InitUnsub /\ [][NextUnsub]_vars

\* ------------------------------------------------------- the connect() loop

\* The main task runs connect(); a second task may call disconnect().
Other == Caller + 1

\* What receive() delivers while no event is in flight.
ConnOutcomes == ReceiveOutcomes

\* The channel lists connect() is given (none: main alone is subscribed), and
\* the instance addresses.
ConnLists == {<<>>}
ConnUrls == {Url("https", "example.test"), Url("http", "example.test")}

InitConn == \E url \in ConnUrls, n \in 1..MaxRetries : InitClient(url, n)

NextConn ==
    \/ \E l \in ConnLists, b \in BOOLEAN : ConnectBegin(Caller, l, b)
    \/ ConnectOnceOpenResume(Caller)
    \/ ConnectOnceCleanupResume(Caller)
    \/ ConnectOnceSendResume(Caller)
    \/ ConnectSleepResume(Caller)
    \/ \E x \in ConnOutcomes : ListenResume(Caller, x)
    \/ DisconnectBegin(Other)
    \/ DisconnectSendResume(Other)
    \/ DisconnectCloseResume(Other)

SpecConn == InitConn /\ [][NextConn]_vars

\* One connect() call of the second task, which reconnects by itself when a
\* receive raises the reconnect-needed condition, while the first task
\* subscribes channels.
NextSub ==
    \/ (cur[Other].op = "none" /\ ConnectBegin(Other, <<>>, TRUE))
    \/ ConnectOnceOpenResume(Other)
    \/ ConnectOnceCleanupResume(Other)
    \/ ConnectOnceSendResume(Other)
    \/ ConnectSleepResume(Other)
    \/ \E x \in {"timeout", "badjson", "closed"} : ListenResume(Other, x)
    \/ \E a \in RaceArgs : ConnectChannelBegin(Caller, a[1], a[2])
    \/ ConnectChannelResume(Caller)

SpecSub == InitClient(Url("https", "example.test"), 2) /\ [][NextSub]_vars

\* ------------------------------------------------------ the event pipeline

\* A step of the event loop outside the callers' tasks (a worker).
Step(s) ==
    /\ ws_connection' = s.ws_connection
    /\ open_socks' = s.open_socks
    /\ running' = s.running
    /\ should_reconnect' = s.should_reconnect
    /\ channels' = s.channels
    /\ processed_events' = s.processed_events
    /\ event_queue' = s.event_queue
    /\ workers' = s.workers
    /\ chat_channel_tasks' = s.chat_channel_tasks
    /\ hist' = s.hist
    /\ UNCHANGED <<instance_url, ws_max_retries, now, cur, bot_vars>>

\* The receive of _listen_messages returns the channel envelope of event e.
ListenEventResume(t, e) ==
    /\ At(t, "listen")
    /\ hist.n < MaxArrivals
    /\ Apply(t, HandleChannelMessage(Self, cur[t], e))

\* The put the read loop waits in ends: with room made, or by its timeout.
PutResume(t) ==
    /\ At(t, "put_wait")
    /\ \E o \in {"room", "timeout"} :
         /\ o = "room" => ~QueueFull(event_queue)
         /\ Apply(t, PutEnded(Self, cur[t], o))

\* Worker w takes the oldest item off the queue.
WorkerGet(w) ==
    /\ w \in 1..Len(workers)
    /\ workers[w].st = "waiting"
    /\ event_queue # <<>>
    /\ Step(WorkerGot(Self, w))

\* The handlers worker w called return.
WorkerDone(w) ==
    /\ w \in 1..Len(workers)
    /\ workers[w].st = "busy"
    /\ Step(WorkerHandled(Self, w))

\* Time passes.
Tick ==
    /\ now < MaxTime
    /\ now' = now + 1
    /\ UNCHANGED <<bot_vars, conn_vars, reg_vars, cur, processed_events, event_queue,
                   workers, chat_channel_tasks, hist>>

\* ------------------------------------------------- the dedup cache by itself

\* A key is tested and, not being found, inserted, as _handle_channel_message
\* does, on a cache of maxsize CacheCap.
CacheInsert(k) ==
    /\ ~CacheContains(processed_events, k, now)
    /\ processed_events' = TTLCacheSet(processed_events, k, now, CacheCap)
    /\ UNCHANGED <<bot_vars, conn_vars, reg_vars, cur, now, event_queue,
                   workers, chat_channel_tasks, hist>>

NextCache ==
    \/ \E k \in 1..MaxKeys : CacheInsert(k)
    \/ Tick

SpecCache == InitClient(Url("https", "example.test"), 1) /\ [][NextCache]_vars

\* A task calls close().
CloseBegin(t) ==
    /\ Idle(t)
    /\ Apply(t, DisconnectCall(Self, NewCall(t, "close", "", "None")))

\* The queue has room for the next sentinel of _stop_workers.
CloseStopResume(t) ==
    /\ At(t, "cl_put")
    /\ ~QueueFull(event_queue)
    /\ Apply(t, StopWorkersLoop(Self, cur[t]))

\* The workers close() joins have all exited.
CloseJoinResume(t) ==
    /\ At(t, "cl_join")
    /\ \A w \in 1..Len(workers) : workers[w].st = "exited"
    /\ Apply(t, StopWorkersJoin(Self, cur[t]))

\* The socket close of close() returns.
CloseSocketResume(t) ==
    /\ At(t, "cl_close")
    /\ Apply(t, CloseSocketClosed(Self, cur[t]))

\* transport.close_session() returns.
CloseSessionResume(t) ==
    /\ At(t, "cl_session")
    /\ Apply(t, CloseFinish(Self, cur[t]))

\* The second task runs connect() and with it the read loop, the workers take
\* what it queues and time passes; the first task may call disconnect().
Events == {EventOf(i) : i \in EventIds}

InitEvt == InitClient(Url("https", "example.test"), 1)

NextEvt ==
    \/ ConnectBegin(Other, <<>>, TRUE)
    \/ ConnectOnceOpenResume(Other)
    \/ ConnectOnceSendResume(Other)
    \/ \E x \in {"timeout", "closed"} : ListenResume(Other, x)
    \/ \E e \in Events : ListenEventResume(Other, e)
    \/ PutResume(Other)
    \/ \E w \in 1..NumWorkers : WorkerGet(w)
    \/ \E w \in 1..NumWorkers : WorkerDone(w)
    \/ Tick

SpecEvt == InitEvt /\ [][NextEvt]_vars

\* ---------------------------------------------------- the chat-channel tasks

\* The chat-channel task of peer p completes.
ChatTaskDone(p) ==
    /\ p \in chat_channel_tasks
    /\ Step(ChatTaskEnded(Self, p))

\* The second task runs connect() once and with it the read loop, which
\* receives chat messages and mentions; the workers take what it queues, a
\* chat-channel task may complete, and the first task may call disconnect()
\* once (should_reconnect tells that it has not yet).
NextChat ==
    \/ (should_reconnect /\ ~running /\ ConnectBegin(Other, <<>>, TRUE))
    \/ ConnectOnceOpenResume(Other)
    \/ ConnectOnceSendResume(Other)
    \/ ListenResume(Other, "timeout")
    \/ \E e \in Events : ListenEventResume(Other, e)
    \/ PutResume(Other)
    \/ \E w \in 1..NumWorkers : WorkerGet(w)
    \/ \E w \in 1..NumWorkers : WorkerDone(w)
    \/ \E p \in Peers : ChatTaskDone(p)
    \/ (should_reconnect /\ DisconnectBegin(Caller))
    \/ DisconnectSendResume(Caller)
    \/ DisconnectCloseResume(Caller)

SpecChat == InitClient(Url("https", "example.test"), 1) /\ [][NextChat]_vars

\* ------------------------------------------------------ decoded envelopes

\* What json.loads hands to _process_message: a dict with a type and a body,
\* an empty dict, or a value that is no dict (a list).
Envelope(shape, type, body) == [shape |-> shape, type |-> type, body |-> body]
NoBody == [id |-> 0, kind |-> "", peer |-> ""]
Envelopes ==
    {Envelope("dict", ty, e) : ty \in {"channel", "noteUpdated", "None"}, e \in Events}
        \cup {Envelope("empty", "None", NoBody), Envelope("list", "None", NoBody)}

\* As ProcessMessage, the body dispatched whatever the type of the envelope.
ProcessMessageAnyType(s, r, data) ==
    IF data.shape # "dict"
    THEN ListenLoop(s, [r EXCEPT !.got = "discarded"])
    ELSE HandleChannelMessage(s, [r EXCEPT !.got = "channel"], data.body)

\* _process_message(data): a value that is empty or no dict is logged and
\* dropped; the body of a "channel" envelope goes to
\* _handle_channel_message; any other type is logged and dropped.  The read
\* loop then goes on.
ProcessMessage(s, r, data) ==
    IF data.shape # "dict"
    THEN ListenLoop(s, [r EXCEPT !.got = "discarded"])
    ELSE IF data.type = "channel"
    THEN HandleChannelMessage(s, [r EXCEPT !.got = "channel"], data.body)
    ELSE ListenLoop(s, [r EXCEPT !.got = "discarded"])

\* The receive of _listen_messages returns a TEXT message that decodes to d.
ListenEnvelopeResume(t, d) ==
    /\ At(t, "listen")
    /\ hist.n < MaxArrivals
    /\ Apply(t, ProcessMessage(Self, cur[t], d))

\* The first task runs connect() once and with it the read loop, which
\* receives envelopes of every kind; the workers take what is queued.
NextMsg ==
    \/ (should_reconnect /\ ~running /\ ConnectBegin(Caller, <<>>, TRUE))
    \/ ConnectOnceOpenResume(Caller)
    \/ ConnectOnceSendResume(Caller)
    \/ \E d \in Envelopes : ListenEnvelopeResume(Caller, d)
    \/ PutResume(Caller)
    \/ \E w \in 1..NumWorkers : WorkerGet(w)
    \/ \E w \in 1..NumWorkers : WorkerDone(w)

SpecMsg == InitClient(Url("https", "example.test"), 1) /\ [][NextMsg]_vars

\* The same with WS_MAX_RETRIES = 2 and one connect() call, which reconnects
\* by itself after its backoff sleep when the connection is lost, while the
\* server delivers one mention again and again (the queue never fills: the
\* read loop does not come to wait in a put).
NextReconn ==
    \/ (cur[Other].op = "none" /\ ConnectBegin(Other, <<>>, TRUE))
    \/ ConnectOnceOpenResume(Other)
    \/ ConnectOnceSendResume(Other)
    \/ ConnectSleepResume(Other)
    \/ \E x \in {"timeout", "closed"} : ListenResume(Other, x)
    \/ ListenEventResume(Other, EventOf(2))
    \/ \E w \in 1..NumWorkers : WorkerGet(w)
    \/ \E w \in 1..NumWorkers : WorkerDone(w)
    \/ Tick

SpecReconn == InitClient(Url("https", "example.test"), 2) /\ [][NextReconn]_vars

\* ------------------------------------------------------------------ shutdown

\* The client once connect(), called by the second task on a fresh client,
\* has run connect_once() and entered the read loop: socket 1 open, the
\* workers started, main subscribed under identifier 1, the task suspended
\* in receive().
InitClose ==
    /\ instance_url = Url("https", "example.test")
    /\ ws_max_retries = 1
    /\ ws_connection = 1
    /\ open_socks = {1}
    /\ running = TRUE
    /\ should_reconnect = TRUE
    /\ channels = <<[id |-> 1, name |-> MAIN, params |-> "{}"]>>
    /\ cur = [t \in Tasks |->
                IF t = Other
                THEN [IdleTask EXCEPT !.op = "connect", !.pc = "listen",
                                      !.kind = "run", !.sock = 1]
                ELSE IdleTask]
    /\ processed_events = <<>>
    /\ now = 0
    /\ event_queue = <<>>
    /\ workers = [w \in 1..NumWorkers |-> WaitingWorker]
    /\ chat_channel_tasks = {}
    /\ hist = InitHist
    /\ event_handlers = NoHandlers
    /\ bot = InitBot
    /\ mentions = InitMentions

\* The read loop receives chat messages of one peer and the workers take
\* what it queues; the first task subscribes a chat channel and disconnects
\* or closes the client.  No socket is opened meanwhile, so that close() finds the handle
\* released when it comes to its own _close_websocket().

NextClose ==
    \/ ConnectChannelBegin(Caller, "chatUser", "{other:a}")
    \/ ConnectChannelResume(Caller)
    \/ CloseBegin(Caller)
    \/ DisconnectBegin(Caller)
    \/ DisconnectSendResume(Caller)
    \/ DisconnectCloseResume(Caller)
    \/ CloseStopResume(Caller)
    \/ CloseJoinResume(Caller)
    \/ CloseSessionResume(Caller)
    \/ \E x \in {"timeout", "closed"} : ListenResume(Other, x)
    \/ ListenEventResume(Other, EventOf(1))
    \/ PutResume(Other)
    \/ \E w \in 1..NumWorkers : WorkerGet(w)
    \/ \E w \in 1..NumWorkers : WorkerDone(w)

SpecClose == InitClose /\ [][NextClose]_vars

\* The same under the event loop's scheduling: a coroutine whose await can
\* complete is resumed, a handler that was called returns, a worker waiting
\* on a queue that holds items gets one, and a put waiting for room gets it
\* when room is made again and again (the queue serves its putters in turn).
SpecCloseFair ==
    /\ SpecClose
    /\ \A w \in 1..NumWorkers : WF_vars(WorkerGet(w)) /\ WF_vars(WorkerDone(w))
    /\ SF_vars(CloseStopResume(Caller))
    /\ WF_vars(CloseJoinResume(Caller))
    /\ WF_vars(CloseSessionResume(Caller))
    /\ WF_vars(DisconnectSendResume(Caller))
    /\ WF_vars(DisconnectCloseResume(Caller))

\* ------------------------------------------------------ handler registration

EventTypes == {"mention", "message", "note", "notification"}
Callbacks == 1..NumCallbacks

\* dict.get(e, []): the callbacks registered for an event type.
HandlersOf(h, e) == IF e \in DOMAIN h THEN h[e] ELSE <<>>

\* As _add_event_handler, the callback replacing the ones registered.
AddEventHandlerReplacing(h, e, f) ==
    [x \in DOMAIN h \cup {e} |-> IF x = e THEN <<f>> ELSE h[x]]

\* _add_event_handler: setdefault(event_type, []).append(handler).
AddEventHandler(h, e, f) ==
    [x \in DOMAIN h \cup {e} |-> IF x = e THEN Append(HandlersOf(h, e), f)
                                  ELSE h[x]]

\* The number of registrations made so far.
RECURSIVE Registrations(_, _)
Registrations(h, es) ==
    IF es = {} THEN 0
    ELSE LET e == CHOOSE x \in es : TRUE
         IN  Len(HandlersOf(h, e)) + Registrations(h, es \ {e})

\* A registration leaves everything but the handler table alone.
Register(e, f) ==
    /\ Registrations(event_handlers, EventTypes) < MaxHandlers
    /\ event_handlers' = AddEventHandler(event_handlers, e, f)
    /\ UNCHANGED <<conn_vars, reg_vars, cur, evt_vars, bot, mentions>>

OnMention(f) == Register("mention", f)
OnMessage(f) == Register("message", f)
OnNote(f) == Register("note", f)
OnNotification(f) == Register("notification", f)

NextReg ==
    \/ \E f \in Callbacks : OnMention(f)
    \/ \E f \in Callbacks : OnMessage(f)
    \/ \E f \in Callbacks : OnNote(f)
    \/ \E f \in Callbacks : OnNotification(f)

SpecReg == InitClient(Url("https", "example.test"), 1) /\ [][NextReg]_vars

\* ------------------------------------------------------- the bot's handlers

\* What a plugin's on_mention hook returns: None, a result that does not
\* report handled, or one that does.
ResultVectors == [1..NumPlugins -> {"none", "pass", "handled"}]

\* plugin_manager.on_mention(note): every plugin's hook is called, in
\* registration order, and the list of their results is returned.
PluginManagerOnMention(v) ==
    [invoked |-> [i \in 1..NumPlugins |-> i], results |-> v]

\* The for loop of _try_plugin_response from position i on: the position of
\* the first result that is a dict reporting handled, or 0.
RECURSIVE ScanResults(_, _)
ScanResults(results, i) ==
    IF i > Len(results) THEN 0
    ELSE IF results[i] = "handled" THEN i
    ELSE ScanResults(results, i + 1)

\* As _try_plugin_response, the loop not ending at the first handled result.
TryPluginResponseLast(results) ==
    LET hs == {i \in 1..Len(results) : results[i] = "handled"}
    IN  IF hs = {} THEN 0 ELSE CHOOSE i \in hs : \A j \in hs : j <= i

\* _try_plugin_response: the position of the result it applied (0: it
\* returned False).
TryPluginResponse(results) == ScanResults(results, 1)

\* What MentionHandler.handle is given: a mention it answers ("ok"), one it
\* returns early for (responses disabled, no mention id, a self mention, a
\* blacklisted user, a blocked user who got the blocked reply), or one for
\* which on_mention raises ("error").  g is how sending the reply (the
\* plugin's or the generated one) ends.
MentionInputs ==
    {"ok", "disabled", "noid", "self", "blacklisted", "blocked", "error"}

\* MentionHandler.handle(note).
MentionHandle(m, v, g) ==
    IF m \in {"disabled", "noid", "self", "blacklisted", "blocked"}
    THEN Handling("mention", m, <<>>, <<>>, 0, FALSE, "return", "", FALSE)
    ELSE IF m = "error"
    THEN Handling("mention", m, <<>>, <<>>, 0, FALSE, "return", "", TRUE)
    ELSE LET pm == PluginManagerOnMention(v)
             k == TryPluginResponse(pm.results)
         IN  Handling("mention", m, pm.results, pm.invoked, k, k = 0,
                      "return", "", g = "error")

\* How plugin_manager.on_notification ends: it returns, raises an exception,
\* or the task is cancelled while it waits.
NotificationOutcomes == {"ok", "error", "cancelled"}

\* As NotificationHandler.handle, without the except Exception clause.
NotificationHandleUncaught(x) ==
    IF x = "ok"
    THEN Handling("notification", x, <<>>, <<>>, 0, FALSE, "return", "", FALSE)
    ELSE Handling("notification", x, <<>>, <<>>, 0, FALSE, "raise",
                  IF x = "cancelled" THEN "CancelledError" ELSE "Exception",
                  FALSE)

\* NotificationHandler.handle(notification).
NotificationHandle(x) ==
    CASE x = "ok" ->
            Handling("notification", x, <<>>, <<>>, 0, FALSE, "return", "", FALSE)
      [] x = "error" ->
            Handling("notification", x, <<>>, <<>>, 0, FALSE, "return", "", TRUE)
      [] OTHER ->
            Handling("notification", x, <<>>, <<>>, 0, FALSE, "raise",
                     "CancelledError", FALSE)

\* A worker hands a mention to the mention handler.
MentionDispatch(m, v, g) ==
    /\ bot.n < MaxBotEvents
    /\ bot' = [bot EXCEPT !.n = @ + 1, !.last = MentionHandle(m, v, g)]
    /\ UNCHANGED <<conn_vars, reg_vars, cur, evt_vars, event_handlers, mentions>>

\* A worker hands a notification to the notification handler.
NotificationDispatch(x) ==
    /\ bot.n < MaxBotEvents
    /\ bot' = [bot EXCEPT !.n = @ + 1, !.last = NotificationHandle(x),
                          !.failed = IF x = "error" THEN @ + 1 ELSE @]
    /\ UNCHANGED <<conn_vars, reg_vars, cur, evt_vars, event_handlers, mentions>>

NextBot ==
    \/ \E m \in MentionInputs, v \in ResultVectors, g \in SendOutcomes :
          MentionDispatch(m, v, g)
    \/ \E x \in NotificationOutcomes : NotificationDispatch(x)

SpecBot == InitClient(Url("https", "example.test"), 1) /\ [][NextBot]_vars

\* ------------------------------------------------- the bot's mention paths

\* _handle_mention(note) up to its first await, for a note that has an id and
\* was written after startup: an id found in processed_mentions returns;
\* otherwise persistence.is_mention_processed is awaited.
HandleMention(mn, p, id) ==
    IF id \in mn.processed THEN mn
    ELSE [mn EXCEPT !.pc[p] = "is_processed", !.note[p] = id]

\* The callers of _handle_mention test processed_mentions themselves first.
MentionGiven(p, id) ==
    /\ mentions.pc[p] = "idle"
    /\ mentions.calls < MaxMentionCalls
    /\ mentions' =
          LET mn == [mentions EXCEPT !.calls = @ + 1]
          IN  IF id \in mn.processed THEN mn ELSE HandleMention(mn, p, id)
    /\ UNCHANGED <<conn_vars, reg_vars, cur, evt_vars, event_handlers, bot>>

\* _handle_websocket_message receives a mention from the main channel.
HandleWebsocketMessage(id) == MentionGiven("ws", id)

\* poll_once finds a mention in what get_mentions returned.
PollOnce(id) == MentionGiven("poll", id)

\* is_mention_processed has answered: a row for the id returns; otherwise the
\* note's fields are validated and mark_mention_processed is awaited.
HandleMentionChecked(p) ==
    /\ mentions.pc[p] = "is_processed"
    /\ mentions' = [mentions EXCEPT
                      !.pc[p] = IF mentions.note[p] \in mentions.db
                                THEN "idle" ELSE "mark"]
    /\ UNCHANGED <<conn_vars, reg_vars, cur, evt_vars, event_handlers, bot>>

\* mark_mention_processed has inserted the row (INSERT OR IGNORE); the id is
\* appended to processed_mentions and plugin_manager.on_mention is awaited.
HandleMentionMarked(p) ==
    /\ mentions.pc[p] = "mark"
    /\ LET id == mentions.note[p]
       IN  mentions' = [mentions EXCEPT
                          !.db = @ \cup {id}, !.processed = @ \cup {id},
                          !.marks[id] = @ + 1, !.pc[p] = "on_mention"]
    /\ UNCHANGED <<conn_vars, reg_vars, cur, evt_vars, event_handlers, bot>>

\* The plugins have answered: a handled result returns; otherwise
\* deepseek.generate_reply is called and awaited.
HandleMentionPlugins(p, handled) ==
    /\ mentions.pc[p] = "on_mention"
    /\ mentions' = IF handled THEN [mentions EXCEPT !.pc[p] = "idle"]
                   ELSE [mentions EXCEPT
                           !.replies[mentions.note[p]] = @ + 1,
                           !.pc[p] = "generate_reply"]
    /\ UNCHANGED <<conn_vars, reg_vars, cur, evt_vars, event_handlers, bot>>

\* generate_reply has returned or raised; the reply or an error reply is
\* posted and _handle_mention returns.
HandleMentionReplied(p) ==
    /\ mentions.pc[p] = "generate_reply"
    /\ mentions' = [mentions EXCEPT !.pc[p] = "idle"]
    /\ UNCHANGED <<conn_vars, reg_vars, cur, evt_vars, event_handlers, bot>>

\* The WebSocket callback and the polling loop run as two tasks of one event
\* loop; each step is what one of them does between two awaits.
NextMention ==
    \/ \E id \in MentionIds : HandleWebsocketMessage(id)
    \/ \E id \in MentionIds : PollOnce(id)
    \/ \E p \in Paths : HandleMentionChecked(p)
    \/ \E p \in Paths : HandleMentionMarked(p)
    \/ \E p \in Paths, handled \in BOOLEAN : HandleMentionPlugins(p, handled)
    \/ \E p \in Paths : HandleMentionReplied(p)

SpecMention == InitClient(Url("https", "example.test"), 1) /\ [][NextMention]_vars

\* ------------------------------------------------------------------- claims

\* A call that has ended, and the socket opens a call attempted.
Ended(r) == r.pc = "idle" /\ r.kind \in {"return", "raise"}
Opens(r) == SelectSeq(r.sockops, LAMBDA x : x.op = "open")
FrameIds(r) == [i \in 1..Len(r.frames) |-> r.frames[i].id]

\* C1: a connect_channel call that returns after finding the subscription
\* sends no frame and leaves the registry as it was; one that returns without
\* having found it has sent exactly one subscribe frame, for the identifier it
\* returns; and a call that follows a returned call with the same name and
\* parameters finds the subscription and returns the same identifier.
C1_SameIdOneFrame ==
    \A t \in Tasks :
      LET r == cur[t]
      IN  (r.op = "connect_channel" /\ Ended(r) /\ r.kind = "return") =>
            /\ r.existed => r.frames = <<>> /\ r.sockops = <<>> /\ channels = r.reg0
            /\ ~r.existed =>
                 /\ Len(r.frames) = 1
                 /\ r.frames[1].type = "connect"
                 /\ r.frames[1].id = r.val
                 /\ r.frames[1].channel = r.name
                 /\ r.frames[1].params = EffectiveParams(r.params)
            /\ r.prev_id # 0 => r.existed /\ r.val = r.prev_id

\* The second of two calls with the same arguments has returned.
C1_Witness ==
    \E t \in Tasks :
      /\ cur[t].op = "connect_channel" /\ cur[t].kind = "return"
      /\ cur[t].prev_id # 0 /\ cur[t].val = cur[t].prev_id
      /\ WsAvailable(Self)

\* C2: the registry never holds two subscriptions with the same name and
\* parameters.
C2_OnePerPair ==
    \A i, j \in 1..Len(channels) :
      (channels[i].name = channels[j].name
         /\ channels[i].params = channels[j].params) => i = j

\* The identifiers the registry held under a call's name when it began.
RemovedBy(r) ==
    LET m == SelectSeq(r.reg0, LAMBDA c : c.name = r.name)
    IN  [i \in 1..Len(m) |-> m[i].id]

\* The registry a disconnect_channel call is to leave behind.
KeptBy(r) == SelectSeq(r.reg0, LAMBDA c : c.name # r.name)

\* C3 as claimed: a disconnect_channel call that returns has removed every
\* subscription under its name and no other, and has sent one unsubscribe
\* frame for each one it removed.
C3_OneFramePerRemoved ==
    \A t \in Tasks :
      LET r == cur[t]
      IN  (r.op = "disconnect_channel" /\ Ended(r) /\ r.kind = "return") =>
            /\ channels = KeptBy(r)
            /\ FrameIds(r) = RemovedBy(r)

\* C3 as amended: a disconnect_channel call that returns has removed every
\* subscription under its name and no other; it has sent one unsubscribe
\* frame for each subscription it removed while the socket was available, in
\* registry order, and none for those removed after it was not.
C3_FramesWhileAvailable ==
    \A t \in Tasks :
      LET r == cur[t]
      IN  (r.op = "disconnect_channel" /\ Ended(r) /\ r.kind = "return") =>
            /\ channels = KeptBy(r)
            /\ Len(r.frames) <= Len(RemovedBy(r))
            /\ FrameIds(r) = SubSeq(RemovedBy(r), 1, Len(r.frames))
            /\ \A i \in 1..Len(r.frames) : r.frames[i].type = "disconnect"
            /\ WsAvailable(Self) => Len(r.frames) = Len(RemovedBy(r))

\* A call has removed two subscriptions under its name, with a frame for
\* each, and left one of another name.
C3_Witness ==
    \E t \in Tasks :
      /\ cur[t].op = "disconnect_channel" /\ cur[t].kind = "return"
      /\ Len(cur[t].frames) = 2 /\ Len(RemovedBy(cur[t])) = 2
      /\ Len(channels) = 1

\* C4: a connect(reconnect=True) call on a client that is not running, left
\* alone by other tasks, whose socket opens all fail, ends by raising the
\* connection error after exactly WS_MAX_RETRIES opens and one sleep between
\* consecutive opens.
C4_ExactlyMaxRetries ==
    \A t \in Tasks :
      LET r == cur[t]
      IN  (/\ r.op = "connect" /\ Ended(r) /\ r.reconnect /\ r.fresh /\ r.solo
           /\ ~r.opened /\ UrlScheme(instance_url) = "https") =>
            /\ r.kind = "raise" /\ r.exc = "WebSocketConnectionError"
            /\ Len(Opens(r)) = ws_max_retries
            /\ r.sleeps = ws_max_retries - 1

\* Such a call has given up after three opens and two sleeps.
C4_Witness ==
    \E t \in Tasks :
      /\ cur[t].op = "connect" /\ cur[t].kind = "raise" /\ cur[t].reconnect
      /\ cur[t].fresh /\ cur[t].solo /\ ~cur[t].opened
      /\ ws_max_retries = 3 /\ Len(Opens(cur[t])) = 3 /\ cur[t].sleeps = 2

\* C5: a connect(reconnect=False) call on a client that is not running, left
\* alone by other tasks, makes one connect attempt and never sleeps.
C5_OneAttempt ==
    \A t \in Tasks :
      LET r == cur[t]
      IN  (/\ r.op = "connect" /\ Ended(r) /\ ~r.reconnect /\ r.fresh /\ r.solo
           /\ UrlScheme(instance_url) = "https") =>
            /\ r.opened \/ Len(Opens(r)) = 1
            /\ r.sleeps = 0

\* C6: with an instance address whose scheme is not secure no socket is ever
\* opened, written or closed, and a connect() call on a client that is not
\* running ends at once with the ValueError of the scheme check, without a
\* sleep; and every socket open any call attempts is of a wss URL.
C6_InsecureSchemeFailsFast ==
    /\ instance_url.scheme = "http" =>
         /\ ws_connection = NoSocket /\ open_socks = {}
         /\ \A t \in Tasks :
              /\ cur[t].sockops = <<>>
              /\ (cur[t].op = "connect" /\ cur[t].reconnect /\ cur[t].fresh) =>
                   /\ cur[t].kind = "raise" /\ cur[t].exc = "ValueError"
                   /\ cur[t].sleeps = 0 /\ ~cur[t].opened
    /\ \A t \in Tasks : \A i \in 1..Len(cur[t].sockops) :
         cur[t].sockops[i].op = "open" => cur[t].sockops[i].scheme = "wss"

\* connect() has failed on an http address.
C6_Witness ==
    /\ instance_url.scheme = "http"
    /\ \E t \in Tasks :
         cur[t].op = "connect" /\ cur[t].kind = "raise" /\ cur[t].fresh

\* C7: when a close() call that no other task ran alongside has returned,
\* the registry is empty, the dedup cache is empty, no chat-channel task is
\* in the table or still running, and the socket handle is None.
C7_CloseLeavesNothing ==
    \A t \in Tasks :
      LET r == cur[t]
      IN  (r.op = "close" /\ Ended(r) /\ r.kind = "return" /\ r.solo) =>
            /\ channels = <<>>
            /\ processed_events = <<>>
            /\ chat_channel_tasks = {}
            /\ \A p \in Peers : hist.tasks[p] # "running"
            /\ ws_connection = NoSocket

\* Such a call has returned, having begun with a socket held, a chat channel
\* subscribed besides main, an identifier in the cache and a chat-channel
\* task alive.
C7_Witness ==
    \E t \in Tasks :
      /\ cur[t].op = "close" /\ cur[t].kind = "return" /\ cur[t].solo
      /\ cur[t].busy0 /\ Len(cur[t].reg0) = 2

\* The items that are queued or in a worker's hands.
QueuedItems == {event_queue[i] : i \in 1..Len(event_queue)} \ {Sentinel}
HandledItems ==
    {workers[w].item : w \in {v \in 1..Len(workers) : workers[v].st = "busy"}}

\* C8 as claimed: an event is handed to a handler only if its identifier was
\* not inserted into the cache less than the TTL before its admission.
C8_OnePerTtlWindow ==
    \A x \in QueuedItems \cup HandledItems : x.window

\* C8 as amended: an event is queued and handed to a handler only if, at its
\* admission, the cache held no unexpired entry of its identifier that was
\* neither evicted for capacity nor cleared; and no admitted event is in the
\* hands of two workers.
C8_OnePerResidency ==
    /\ \A x \in QueuedItems \cup HandledItems : x.fresh
    /\ \A v, w \in 1..Len(workers) :
         (workers[v].st = "busy" /\ workers[w].st = "busy"
            /\ workers[v].item.n = workers[w].item.n) => v = w

\* Two workers are busy with events of the same identifier.
C8_Witness ==
    \E v, w \in 1..Len(workers) :
      /\ v # w /\ workers[v].st = "busy" /\ workers[w].st = "busy"
      /\ workers[v].item.id = workers[w].item.id

C10_Fifo ==
    /\ \A i, j \in 1..Len(event_queue) :
         i < j => event_queue[i].n < event_queue[j].n
    /\ \A i \in 1..Len(event_queue) : event_queue[i].n > hist.last_deq
    /\ \A w \in 1..Len(workers) :
         workers[w].st = "busy" => workers[w].item.n > workers[w].after

\* Both workers are busy, with the first two events admitted, while a third
\* is queued.
C10_Witness ==
    /\ Len(workers) >= 2 /\ Len(event_queue) >= 1
    /\ \E v, w \in 1..Len(workers) :
         /\ workers[v].st = "busy" /\ workers[v].item.n = 1
         /\ workers[w].st = "busy" /\ workers[w].item.n = 2
         /\ workers[w].after = 1

\* The put of task t times out in this step.
PutTimesOut(t) ==
    /\ cur[t].pc = "put_wait"
    /\ hist.gate.out = "waiting" /\ hist'.gate.out = "dropped"

\* C11: when the put the read loop waits in times out, the event is dropped
\* (it is neither queued nor handed to a worker), the registry, the socket
\* and the retry counter are as before, nothing is raised, and the read loop
\* of a client that is still running on an available socket is suspended in
\* its next receive.
C11_DropKeepsReading ==
    [][\A t \in Tasks : PutTimesOut(t) =>
          /\ event_queue' = event_queue /\ workers' = workers
          /\ \A i \in 1..Len(event_queue) : event_queue[i].n # cur[t].item.n
          /\ channels' = channels
          /\ ws_connection' = ws_connection /\ open_socks' = open_socks
          /\ running' = running /\ should_reconnect' = should_reconnect
          /\ cur'[t].retry_count = cur[t].retry_count
          /\ cur'[t].kind # "raise" /\ cur'[t].sleeps = cur[t].sleeps
          /\ (running /\ WsAvailable(Self)) =>
                cur'[t].pc = "listen" /\ cur'[t].item = NoItem]_vars

\* An event has been dropped against a full queue and the read loop is in
\* its next receive.
C11_Witness ==
    /\ hist.gate.out = "dropped" /\ QueueFull(event_queue)
    /\ \E t \in Tasks : cur[t].op = "connect" /\ cur[t].pc = "listen"
    /\ running /\ WsAvailable(Self)

\* C12: a connect_once call made while the client is marked running returns
\* at once: it attempts no socket operation, sends no frame, leaves the
\* registry and the socket handle as they were and the worker pool at its
\* size.
C12_ConnectOnceIdempotent ==
    \A t \in Tasks :
      LET r == cur[t]
      IN  (r.op = "connect_once" /\ r.kind # "none" /\ ~r.fresh) =>
            /\ Ended(r) /\ r.kind = "return"
            /\ r.frames = <<>> /\ r.sockops = <<>>
            /\ channels = r.reg0
            /\ running
            /\ Len(workers) = NumWorkers
            /\ r.live0 => ws_connection # NoSocket

\* A connect_once call on a connected client with a subscription besides
\* main has returned.
C12_Witness ==
    \E t \in Tasks :
      /\ cur[t].op = "connect_once" /\ cur[t].kind = "return" /\ ~cur[t].fresh
      /\ cur[t].live0 /\ Len(channels) >= 2

\* The main channel is in the registry.
HasMain == \E i \in 1..Len(channels) : channels[i].name = MAIN

\* C13 as claimed: after a connect_once call that has returned, main is in
\* the registry, and the call has sent one subscribe frame per channel, main
\* first when it was not requested.
C13_MainAfterReturn ==
    \A t \in Tasks :
      LET r == cur[t]
      IN  (r.op = "connect_once" /\ Ended(r) /\ r.kind = "return") =>
            /\ HasMain
            /\ r.frames # <<>> /\ r.frames[1].channel = Requested(r.specs)[1].name

\* C13 as amended: after a connect_once call that found the client not
\* running and has returned, main is in the registry; the call opened one
\* socket and sent on it one subscribe frame per channel, in the order of
\* the request, main first when it was not requested; and the registry
\* holds these subscriptions in that order.
C13_MainAfterConnect ==
    \A t \in Tasks :
      LET r == cur[t]
          req == Requested(r.specs)
      IN  (r.op = "connect_once" /\ Ended(r) /\ r.kind = "return" /\ r.fresh) =>
            /\ HasMain
            /\ Len(Opens(r)) = 1 /\ r.sockops[1].op = "open"
            /\ Len(r.frames) = Len(req) /\ Len(channels) = Len(req)
            /\ \A i \in 1..Len(req) :
                 /\ r.frames[i].type = "connect"
                 /\ r.frames[i].channel = req[i].name
                 /\ r.frames[i].params = EffectiveParams(req[i].params)
                 /\ r.frames[i].sock = ws_connection
                 /\ channels[i].id = r.frames[i].id
                 /\ channels[i].name = req[i].name
            /\ (\A i \in 1..Len(r.specs) : r.specs[i].name # MAIN) =>
                 /\ r.frames[1].channel = MAIN
                 /\ SubSeq(req, 2, Len(req)) = NormalizeChannelSpecs(r.specs)

\* Such a call, asked for two chat channels, has returned with three
\* subscriptions.
C13_Witness ==
    \E t \in Tasks :
      /\ cur[t].op = "connect_once" /\ cur[t].kind = "return" /\ cur[t].fresh
      /\ Len(cur[t].specs) = 2 /\ Len(cur[t].frames) = 3
      /\ cur[t].frames[1].channel = MAIN

\* The registry a call began with held a subscription with the call's name
\* and parameters.
Registered0(r) ==
    \E i \in 1..Len(r.reg0) :
      r.reg0[i].name = r.name /\ r.reg0[i].params = EffectiveParams(r.params)

\* A call that failed for want of a socket: nothing attempted, nothing sent,
\* the registry as it was.
FailedUnavailable(r) ==
    /\ Ended(r) /\ r.kind = "raise" /\ r.exc = "WebSocketConnectionError"
    /\ r.frames = <<>> /\ r.sockops = <<>>
    /\ channels = r.reg0

\* C14 as claimed: a connect_channel call for a named channel, begun with no
\* live socket, fails with the connection error, sends nothing and leaves
\* the registry as it was.
C14_FailsWithoutSocket ==
    \A t \in Tasks :
      LET r == cur[t]
      IN  (r.op = "connect_channel" /\ r.kind # "none" /\ r.name # ""
             /\ ~r.live0) => FailedUnavailable(r)

\* C14 as amended: such a call fails so unless the registry holds a
\* subscription with its name and parameters, whose identifier it then
\* returns, sending nothing and leaving the registry as it was.
C14_FailsUnlessRegistered ==
    \A t \in Tasks :
      LET r == cur[t]
      IN  (r.op = "connect_channel" /\ r.kind # "none" /\ r.name # ""
             /\ ~r.live0) =>
            IF Registered0(r)
            THEN /\ Ended(r) /\ r.kind = "return" /\ r.val \in IdsOf(r.reg0)
                 /\ r.frames = <<>> /\ r.sockops = <<>> /\ channels = r.reg0
            ELSE FailedUnavailable(r)

\* A call has failed on a held handle whose socket is closed, for a channel
\* that is not registered while another is.
C14_Witness ==
    \E t \in Tasks :
      /\ cur[t].op = "connect_channel" /\ cur[t].kind = "raise"
      /\ cur[t].exc = "WebSocketConnectionError"
      /\ ws_connection # NoSocket /\ channels # <<>>

\* C15: a disconnect_channel_id call sends at most one frame, the unsubscribe
\* frame of its identifier, and only when the identifier was registered and
\* the socket available; when it has returned, the registry is the one it
\* began with less that identifier, also when the socket was unavailable; an
\* identifier that was not registered changes nothing and sends nothing.
C15_UnsubscribesOneId ==
    \A t \in Tasks :
      LET r == cur[t]
          known == r.id \in IdsOf(r.reg0)
      IN  (r.op = "disconnect_channel_id" /\ Ended(r)) =>
            /\ Len(r.frames) <= 1
            /\ r.frames # <<>> =>
                 /\ known /\ r.live0
                 /\ r.frames[1].type = "disconnect" /\ r.frames[1].id = r.id
            /\ r.kind = "return" =>
                 /\ channels = RemoveId(r.reg0, r.id)
                 /\ r.id \notin IdsOf(channels)
                 /\ (known /\ r.live0) => Len(r.frames) = 1
            /\ (~known \/ ~r.live0) =>
                 r.kind = "return" /\ r.frames = <<>> /\ r.sockops = <<>>
            /\ ~known => channels = r.reg0

\* A call has unsubscribed one of two registered identifiers with a frame.
C15_Witness ==
    \E t \in Tasks :
      /\ cur[t].op = "disconnect_channel_id" /\ cur[t].kind = "return"
      /\ Len(cur[t].frames) = 1 /\ Len(cur[t].reg0) = 2 /\ Len(channels) = 1

\* The sends a call attempted, and the identifier the registry a call began
\* with held first under the call's name and parameters.
Sends(r) == SelectSeq(r.sockops, LAMBDA x : x.op = "send")
Matched0(r) ==
    SelectSeq(r.reg0, LAMBDA c : c.name = r.name
                                 /\ c.params = EffectiveParams(r.params))[1].id

\* What the claim requires of a send_channel_message call that is to send:
\* one send, of one channel-message frame carrying the matching identifier.
SendsOne(r) ==
    /\ Len(Sends(r)) = 1 /\ Len(r.sockops) = 1
    /\ r.kind = "return" =>
         /\ Len(r.frames) = 1 /\ r.frames[1].type = "ch"
         /\ r.frames[1].id = Matched0(r)

\* And of one that is not: nothing attempted, nothing sent, nothing raised.
SendsNothing(r) == r.sockops = <<>> /\ r.frames = <<>> /\ r.kind = "return"

\* C16 as claimed: a send_channel_message call sends one channel-message
\* frame, with the identifier of the matching subscription, exactly when
\* such a subscription is registered and the socket is available; otherwise
\* it sends nothing and raises nothing; the registry is unchanged.
C16_OneFrameIffMatch ==
    \A t \in Tasks :
      LET r == cur[t]
      IN  (r.op = "send_channel_message" /\ Ended(r)) =>
            /\ IF Registered0(r) /\ r.live0 THEN SendsOne(r) ELSE SendsNothing(r)
            /\ channels = r.reg0

\* C16 as amended: it does so exactly when, besides, the event type is not
\* empty.
C16_OneFrameIffMatchAndType ==
    \A t \in Tasks :
      LET r == cur[t]
      IN  (r.op = "send_channel_message" /\ Ended(r)) =>
            /\ IF Registered0(r) /\ r.live0 /\ r.event_type # ""
               THEN SendsOne(r) ELSE SendsNothing(r)
            /\ channels = r.reg0

\* A call has sent its frame for the chat channel, registered second.
C16_Witness ==
    \E t \in Tasks :
      /\ cur[t].op = "send_channel_message" /\ cur[t].kind = "return"
      /\ Len(cur[t].frames) = 1 /\ Len(channels) >= 2
      /\ cur[t].frames[1].id = channels[2].id

\* C17: a disconnect() call ends by returning, whatever became of its
\* unsubscribe sends, with the registry empty, the socket closed, the handle
\* released and the dedup cache empty; and while the socket stayed available
\* it attempted one send for every subscription, the sends that failed not
\* stopping it.
C17_DisconnectBestEffort ==
    LET r == cur[Caller]
    IN    (r.op = "disconnect" /\ Ended(r)) =>
            /\ r.kind = "return"
            /\ channels = <<>>
            /\ ws_connection = NoSocket /\ open_socks = {}
            /\ processed_events = <<>>
            /\ Len(Sends(r)) <= Len(r.reg0)
            /\ r.sockops[Len(r.sockops)].op = "close" =>
                 Len(Sends(r)) = Len(r.reg0)

\* A disconnect() call, begun with a socket, two subscriptions and a cached
\* identifier, has returned after both of its sends failed.
C17_Witness ==
    \E t \in Tasks :
      /\ cur[t].op = "disconnect" /\ cur[t].kind = "return" /\ cur[t].busy0
      /\ Len(cur[t].reg0) = 2 /\ Len(Sends(cur[t])) = 2 /\ cur[t].frames = <<>>

\* C18: a disconnect() or close() call cancels the chat-channel tasks before
\* anything else: while it waits for an unsubscribe send that no other task
\* has run alongside, no chat-channel task is alive; and it attempts no send
\* once it has closed the socket.
C18_TeardownOrder ==
    LET r == cur[Caller]
    IN    (r.op \in {"disconnect", "close"} /\ r.kind # "none") =>
            /\ r.sockops # <<>> /\ r.sockops[1].op = "cancel"
            /\ \A i, j \in 1..Len(r.sockops) :
                 (i < j /\ r.sockops[i].op = "close") => r.sockops[j].op # "send"
            /\ \A i \in 2..Len(r.sockops) : r.sockops[i].op # "cancel"
            /\ (r.pc = "dis_send" /\ r.solo) =>
                 /\ chat_channel_tasks = {}
                 /\ \A p \in Peers : hist.tasks[p] # "running"
            /\ r.pc = "dis_send" => ws_connection = r.sock
            /\ r.pc \in {"dis_close", "cl_put", "cl_join", "cl_session"} =>
                 ~WsAvailable(Self)

\* A close() call that began with a chat-channel task alive has cancelled
\* it, sent two unsubscribe frames and then closed the socket.
C18_Witness ==
    \E t \in Tasks :
      /\ cur[t].op = "close" /\ cur[t].busy0
      /\ Len(cur[t].frames) = 2 /\ Len(cur[t].sockops) = 4
      /\ cur[t].sockops[4].op = "close"
      /\ \A p \in Peers : hist.tasks[p] = "cancelled"

\* A connect() call of task t is under way, in its read loop or in its
\* backoff sleep, and disconnect() has been called since it began.
Stopped(t) ==
    /\ cur[t].op = "connect" /\ cur[t].reconnect
    /\ cur[t].pc \in {"listen", "put_wait", "sleep"}
    /\ ~should_reconnect

\* C19: from then on the call begins no connect_once: no step marks the
\* client running, starts the workers, attempts a socket open or installs a
\* socket, and a step of the call itself leaves it in the read loop or in
\* the sleep, or ends it; it is ended by the step that follows the sleep.
C19_NoAttemptAfterDisconnect ==
    [][\A t \in Tasks : Stopped(t) =>
          /\ cur'[t].pc \in {"listen", "put_wait", "sleep", "idle"}
          /\ ~running => ~running'
          /\ ws_connection' \in {ws_connection, NoSocket}
          /\ open_socks' \subseteq open_socks
          /\ Len(Opens(cur'[t])) = Len(Opens(cur[t]))
          /\ (cur[t].pc = "sleep" /\ cur'[t] # cur[t] /\ cur'[t].solo = cur[t].solo)
                => cur'[t].pc = "idle" /\ cur'[t].kind = "return"]_vars

\* connect() has returned from its backoff sleep, disconnect() having been
\* called during the sleep.
C19_Witness ==
    \E t \in Tasks :
      /\ cur[t].op = "connect" /\ cur[t].kind = "return" /\ cur[t].reconnect
      /\ cur[t].retry_count >= 1 /\ cur[t].sleeps >= 1
      /\ ~should_reconnect /\ ~running

\* A connect() call that has given up: it raised the connection error with
\* its retry counter at the maximum.
GaveUp(r) ==
    /\ r.op = "connect" /\ Ended(r) /\ r.kind = "raise" /\ r.reconnect
    /\ r.exc \in {"WebSocketConnectionError", "WebSocketReconnectError"}
    /\ r.retry_count >= ws_max_retries

\* C20: when a connect() call has given up, the client is not marked
\* running, the socket handle is None and the registry is empty.
C20_TerminalDisconnected ==
    \A t \in Tasks :
      GaveUp(cur[t]) =>
        /\ ~running
        /\ ws_connection = NoSocket
        /\ channels = <<>>

\* A step of the read loop of task t, which a receive delivering x began,
\* leaves the loop in its next receive (or ended by a return, the client not
\* being marked running) with the client and the retry counter as before.
SkipsAndContinues(t, x) ==
    (ListenResume(t, x) /\ (running => WsAvailable(Self))) =>
        /\ cur'[t].kind # "raise"
        /\ cur'[t].retry_count = cur[t].retry_count
        /\ cur'[t].sleeps = cur[t].sleeps
        /\ ws_connection' = ws_connection /\ open_socks' = open_socks
        /\ channels' = channels
        /\ running' = running /\ should_reconnect' = should_reconnect
        /\ event_queue' = event_queue
        /\ IF running THEN cur'[t].pc = "listen"
           ELSE cur'[t].pc = "idle" /\ cur'[t].kind = "return"

\* C21 as stated: a text frame that json.loads rejects, a message that decodes
\* to no dict and a channel message that lacks fields are each logged and
\* skipped: the read loop goes on, nothing is raised and the socket, the
\* registry and the retry counter are as before.
C21_MalformedSkipped ==
    [][\A t \in Tasks : \A x \in {"badjson"} \cup Skipped :
          SkipsAndContinues(t, x)]_vars

\* C21: a message that decodes to no dict and a channel message that lacks
\* fields or has fields of the wrong type are each logged and skipped: the
\* read loop goes on to its next receive, nothing is raised and the socket,
\* the registry, the queue and the retry counter are as before.  (A text
\* frame that json.loads rejects raises the reconnect-needed condition.)
C21_DecodedMalformedSkipped ==
    [][\A t \in Tasks :
          /\ \A x \in Skipped : SkipsAndContinues(t, x)
          /\ (ListenResume(t, "badjson") /\ running /\ WsAvailable(Self)) =>
                /\ cur'[t].pc \in {"sleep", "idle"}
                /\ cur'[t].retry_count = cur[t].retry_count + 1
                /\ cur'[t].pc = "sleep" => ~running'
                /\ cur'[t].pc = "idle" =>
                      /\ cur'[t].kind = "raise"
                      /\ cur'[t].exc = "WebSocketReconnectError"]_vars

\* The read loop of a running client is in its next receive after a message
\* it skipped.
C21_Witness ==
    /\ cur[Caller].op = "connect" /\ cur[Caller].pc = "listen"
    /\ cur[Caller].got = "skipped"
    /\ running /\ WsAvailable(Self) /\ cur[Caller].retry_count = 0

\* What a receive delivers that makes the read loop raise the
\* reconnect-needed condition.
ReconnectNeeded == {"error", "closed", "closing", "badjson"}

\* C22: in a connect() call with reconnect enabled that has established a
\* connection, while no disconnect has been requested, a receive that raises the reconnect-needed condition ends
\* the read loop and not the call as long as the retry counter stays below the
\* maximum: the call counts one retry, marks the client not running and is in
\* its backoff sleep, and the step that follows the sleep begins a fresh
\* connect_once (the client marked running again, a socket open awaited).
\* With the counter at the maximum the call raises instead.
C22_ReconnectAfterDrop ==
    [][\A t \in Tasks :
         /\ \A x \in ReconnectNeeded :
              (ListenResume(t, x) /\ cur[t].reconnect /\ should_reconnect) =>
                 /\ cur'[t].retry_count = cur[t].retry_count + 1
                 /\ IF cur'[t].retry_count < ws_max_retries
                    THEN /\ cur'[t].pc = "sleep" /\ cur'[t].kind = "run"
                         /\ ~running' /\ should_reconnect'
                    ELSE /\ cur'[t].pc = "idle" /\ cur'[t].kind = "raise"
                         /\ cur'[t].exc = "WebSocketReconnectError"
         /\ (ConnectSleepResume(t) /\ cur[t].opened /\ should_reconnect) =>
                 /\ cur'[t].pc = "co_open" /\ cur'[t].kind = "run"
                 /\ running' /\ cur'[t].retry_count = cur[t].retry_count]_vars

\* A connect() call is awaiting a socket open again, having lost an
\* established connection in its read loop and slept, nobody having asked
\* for a disconnect.
C22_Witness ==
    /\ cur[Caller].op = "connect" /\ cur[Caller].pc = "co_open"
    /\ cur[Caller].opened /\ cur[Caller].retry_count = 1
    /\ cur[Caller].reconnect /\ should_reconnect /\ running

\* C23: a registration appends the callback to the list of its event type,
\* whose earlier entries stay as they were and in their order, and leaves the
\* lists of the other event types alone; this holds as well when the callback
\* is in the list already.  No step removes or reorders an entry.
C23_RegistrationAppends ==
    [][/\ \A f \in Callbacks :
           /\ OnMention(f) => HandlersOf(event_handlers', "mention")
                   = Append(HandlersOf(event_handlers, "mention"), f)
           /\ OnMessage(f) => HandlersOf(event_handlers', "message")
                   = Append(HandlersOf(event_handlers, "message"), f)
           /\ OnNote(f) => HandlersOf(event_handlers', "note")
                   = Append(HandlersOf(event_handlers, "note"), f)
           /\ OnNotification(f) => HandlersOf(event_handlers', "notification")
                   = Append(HandlersOf(event_handlers, "notification"), f)
       /\ \E e \in EventTypes :
           /\ Len(HandlersOf(event_handlers', e))
                   = Len(HandlersOf(event_handlers, e)) + 1
           /\ SubSeq(HandlersOf(event_handlers', e), 1,
                     Len(HandlersOf(event_handlers, e)))
                   = HandlersOf(event_handlers, e)
           /\ \A d \in EventTypes \ {e} :
                 HandlersOf(event_handlers', d) = HandlersOf(event_handlers, d)
      ]_vars

\* One callback is registered twice for mentions, after another for notes.
C23_Witness ==
    /\ HandlersOf(event_handlers, "mention") = <<1, 1>>
    /\ HandlersOf(event_handlers, "note") = <<2>>
    /\ "message" \notin DOMAIN event_handlers

\* A mention went through the plugin hooks and the handler returned.
Answered(h) == h.op = "mention" /\ h.input = "ok"

C25_NotificationErrorContained ==
    /\ bot.last.op = "notification" =>
         /\ bot.last.input = "error" =>
               bot.last.kind = "return" /\ bot.last.logged
         /\ bot.last.input = "ok" =>
               bot.last.kind = "return" /\ ~bot.last.logged
         /\ bot.last.kind = "raise" =>
               bot.last.input = "cancelled" /\ bot.last.exc = "CancelledError"
    /\ bot.n < MaxBotEvents =>
         \A x \in NotificationOutcomes : ENABLED NotificationDispatch(x)

\* A notification has been handled after the handling of two earlier ones
\* failed.
C25_Witness ==
    /\ bot.failed = 2 /\ bot.n = 3
    /\ bot.last.op = "notification" /\ bot.last.input = "ok"
    /\ bot.last.kind = "return"

\* C26: a receive that times out raises nothing and changes nothing: the
\* socket handle, the open sockets, the registry, the queue, the flags and
\* the retry counter are as before, and the read loop, having tested the
\* running flag again, is suspended in its next receive; when the flag has
\* been cleared the loop ends and connect() returns without an error.
C26_TimeoutTolerated ==
    [][\A t \in Tasks :
          (ListenResume(t, "timeout") /\ (running => WsAvailable(Self))) =>
              /\ UNCHANGED <<ws_connection, open_socks, channels, event_queue,
                             running, should_reconnect, processed_events>>
              /\ cur'[t].retry_count = cur[t].retry_count
              /\ cur'[t].sleeps = cur[t].sleeps
              /\ cur'[t].kind # "raise"
              /\ running => cur'[t].pc = "listen" /\ cur'[t].kind = "run"
              /\ ~running => /\ cur'[t].pc = "idle"
                             /\ cur'[t].kind = "return"]_vars

\* connect() has returned after a receive timeout, disconnect() having
\* cleared the running flag while the read loop waited.
C26_Witness ==
    /\ cur[Caller].op = "connect" /\ Ended(cur[Caller])
    /\ cur[Caller].kind = "return" /\ cur[Caller].got = "timeout"
    /\ cur[Caller].opened /\ cur[Caller].retry_count = 0
    /\ ~running /\ ~should_reconnect

\* C27: the retry counter of a connect() call is 0 while the call is in its
\* read loop, whatever failed before the connect_once that led there; it
\* never exceeds WS_MAX_RETRIES; it is below the maximum while the call
\* sleeps or attempts a connection, and at least 1 in the sleep.
C27_RetryCounterBounded ==
    \A t \in Tasks :
      LET r == cur[t]
      IN  r.op = "connect" =>
            /\ r.pc \in {"listen", "put_wait"} => r.retry_count = 0
            /\ r.retry_count <= ws_max_retries
            /\ r.pc # "idle" => r.retry_count < ws_max_retries
            /\ r.pc = "sleep" => r.retry_count >= 1
            /\ (Ended(r) /\ r.kind = "return") => r.retry_count < ws_max_retries

\* A connect() call with WS_MAX_RETRIES = 2 sleeps with its counter at 1
\* after losing its second connection: two cycles of the call have failed
\* and it has not given up.
C27_Witness ==
    /\ cur[Caller].op = "connect" /\ cur[Caller].pc = "sleep"
    /\ cur[Caller].retry_count = 1 /\ ws_max_retries = 2
    /\ ws_connection = 2 /\ open_socks = {} /\ should_reconnect

\* C28: on the automatic reconnect path nothing empties the dedup cache: a
\* step that admits no event leaves the cache as it is (losing the
\* connection, the backoff sleep, the socket open and the subscribe sends
\* among them), a step that admits one leaves it non-empty, and an event
\* whose identifier was inserted less than the TTL before and not evicted
\* since is skipped as a duplicate, also when it was inserted on the
\* connection that was lost.
C28_ReconnectKeepsCache ==
    /\ [](hist.gate.was = "live" => hist.gate.out = "dup")
    /\ [][/\ hist'.n = hist.n => processed_events' = processed_events
          /\ hist'.n # hist.n => processed_events' # <<>>]_vars

\* An event admitted on the first socket is redelivered on the second,
\* which the connect() call opened after its backoff sleep, and is skipped.
C28_Witness ==
    /\ hist.gate.out = "dup" /\ hist.gate.was = "live"
    /\ hist.sock = 1 /\ ws_connection = 2 /\ 2 \in open_socks
    /\ hist.n = 1 /\ cur[Other].pc = "listen"

\* A close() call is under way; it has returned with the workers joined.
Closing == cur[Caller].op = "close" /\ cur[Caller].kind = "run"
Closed ==
    /\ cur[Caller].op = "close" /\ cur[Caller].kind = "return"
    /\ workers = <<>>

\* C29: a close() call that is scheduled fairly, with handlers that return,
\* ends by returning with every worker exited and joined; and no step takes
\* an item from a busy worker other than the return of its handlers: until
\* then the worker stays busy with the item, and the pool is dropped only
\* when every worker has exited.
C29_CloseJoinsWorkers ==
    /\ Closing ~> Closed
    /\ [][/\ \A w \in 1..Len(workers) : workers[w].st = "busy" =>
                /\ w <= Len(workers')
                /\ \/ workers'[w] = workers[w]
                   \/ (WorkerDone(w) /\ workers'[w] = WaitingWorker)
          /\ (workers # <<>> /\ workers' = <<>>) =>
                \A w \in 1..Len(workers) : workers[w].st = "exited"]_vars

\* close() has returned with the workers joined, the event admitted last
\* having been handed to a worker before.
C29_Witness ==
    /\ Closed
    /\ hist.n >= 1 /\ hist.gate.out = "queued" /\ hist.last_deq = hist.n
    /\ \A i \in 1..Len(event_queue) : event_queue[i].kind # "None"

\* A connect(reconnect=True) call has returned after a disconnect() call
\* that was made while it ran, and the disconnect() call has returned too.
BothReturned ==
    /\ cur[Caller].op = "connect" /\ Ended(cur[Caller])
    /\ cur[Caller].kind = "return" /\ cur[Caller].reconnect
    /\ ~should_reconnect
    /\ Idle(Other)

\* C30: once a connect() call and a disconnect() call that ran while it was
\* suspended have both returned, the socket handle is released, no socket is
\* open and the registry is empty.
C30_RaceLeavesNothing ==
    BothReturned =>
        /\ ws_connection = NoSocket /\ open_socks = {}
        /\ channels = <<>>

\* C31: during a connect() call that began with no socket available, and
\* after it, at most one socket is open, and an open socket is the one the
\* client holds.
C31_OneOpenSocket ==
    (cur[Caller].op = "connect" /\ ~cur[Caller].live0) =>
        /\ Cardinality(open_socks) <= 1
        /\ open_socks \subseteq {ws_connection}

\* C32: when a connect_channel call returns having recorded a subscription,
\* the socket its subscribe frame was sent on is the socket the client holds.
C32_SubscribedOnHeldSocket ==
    LET r == cur[Caller]
    IN  (/\ r.op = "connect_channel" /\ Ended(r) /\ r.kind = "return"
         /\ ~r.existed /\ r.frames # <<>>
         /\ \E i \in 1..Len(channels) : channels[i].id = r.val) =>
            r.frames[1].sock = ws_connection

\* C33: a connect_once call that returns without raising leaves the client
\* holding a socket, and one that raised while opening the socket (a failed
\* open, or a rejected URL scheme) leaves the client not marked running.
C33_FailedOpenNotRunning ==
    LET r == cur[Caller]
    IN  /\ (r.op = "connect_once" /\ Ended(r) /\ r.kind = "return") =>
               ws_connection # NoSocket
        /\ (/\ r.op = "connect_once" /\ Ended(r) /\ r.kind = "raise"
            /\ ~r.opened /\ r.exc \in {"ValueError", "WebSocketConnectionError"}) =>
               ~running

\* C34: a disconnect_channel, disconnect_channel_id or disconnect() call
\* racing with other unsubscribing calls ends without an error caused by the
\* registry having been changed under it, and sends at most one unsubscribe
\* frame per id.
C34_ConcurrentUnsubscribeSafe ==
    LET r == cur[Caller]
    IN  (/\ r.op \in {"disconnect_channel", "disconnect_channel_id", "disconnect"}
         /\ Ended(r)) =>
            /\ ~(r.kind = "raise" /\ r.exc \in {"KeyError", "RuntimeError"})
            /\ \A i, j \in 1..Len(r.frames) :
                   r.frames[i].id = r.frames[j].id => i = j

\* The workers that have not exited.
LiveWorkers == {w \in 1..Len(workers) : workers[w].st # "exited"}

\* C35: however many times connect_once has run, through reconnect cycles,
\* the live workers never exceed the configured count.
C35_WorkerPoolFixed == Cardinality(LiveWorkers) <= NumWorkers

\* The second socket is open after a reconnect cycle, the pool at its size.
C35_Witness ==
    /\ ws_connection = 2 /\ running
    /\ cur[Other].op = "connect" /\ cur[Other].pc = "listen"
    /\ Cardinality(LiveWorkers) = NumWorkers

\* C36: the event queue never holds more items than its configured capacity.
C36_QueueBounded == Len(event_queue) <= QueueMax

\* The queue is full and the read loop waits with a further item to put.
C36_Witness ==
    /\ Len(event_queue) = QueueMax
    /\ cur[Other].pc = "put_wait" /\ cur[Other].item # NoItem

\* A step that inserts key k into the dedup cache.
Inserts(k) ==
    /\ k \notin Keys(CacheExpire(processed_events, now))
    /\ k \in Keys(processed_events')
    /\ processed_events' # processed_events

\* C37: the dedup cache never holds more than its maximum number of entries,
\* and an insertion that finds it full of unexpired entries evicts the
\* oldest-inserted of them: what is kept is the newest entries, in their
\* order, followed by the new one.
C37_CacheBoundedEvictsOldest ==
    /\ [](Len(processed_events) <= CacheCap)
    /\ [][\A k \in 1..MaxKeys : Inserts(k) =>
            LET live == CacheExpire(processed_events, now)
                n == IF Len(live) >= CacheCap THEN Len(live) - CacheCap + 1 ELSE 0
            IN  /\ processed_events' =
                      Append(SubSeq(live, n + 1, Len(live)),
                             [key |-> k, expires |-> now + CacheTtl])
                /\ \A i \in 1..n, j \in (n + 1)..Len(live) :
                      live[i].expires <= live[j].expires]_vars

\* The cache is full with two entries inserted at different times, both
\* unexpired, the older one first: the next new key evicts it.
C37_Witness ==
    /\ Len(processed_events) = CacheCap
    /\ processed_events[1].expires < processed_events[2].expires
    /\ now < processed_events[1].expires
    /\ \E k \in 1..MaxKeys : k \notin Keys(processed_events)

\* The chat items that are queued or that a worker is busy with.
ChatItems ==
    {x \in {event_queue[i] : i \in 1..Len(event_queue)}
           \cup {workers[w].item : w \in 1..Len(workers)} : x.kind = "chat"}

\* C38: a peer never has more than one chat-channel task, and it has one
\* exactly while the table holds its entry: the entry is gone once the task
\* has completed or was cancelled.  A chat message that is admitted while its
\* peer has no entry creates one in the same step, so that every chat item
\* queued or being handled had its peer's task created before.
C38_OneChatTaskPerPeer ==
    /\ [](\A p \in Peers :
            /\ hist.live[p] <= 1
            /\ p \in chat_channel_tasks <=> hist.live[p] = 1
            /\ hist.tasks[p] \in {"cancelled", "done"} => p \notin chat_channel_tasks)
    /\ [](\A x \in ChatItems : hist.tasks[EventOf(x.id).peer] # "none")
    /\ [][\A e \in Events :
            (/\ e.kind = "chat" /\ hist'.n = hist.n + 1 /\ hist'.gate.id = e.id
             /\ e.peer \notin chat_channel_tasks) =>
                e.peer \in chat_channel_tasks']_vars

\* A chat message has been admitted a second time and is queued or being
\* handled, and its peer has its one task.
C38_Witness ==
    /\ "a" \in chat_channel_tasks /\ hist.live["a"] = 1
    /\ hist.gate.id = 1 /\ hist.gate.out = "queued" /\ hist.n >= 2
    /\ hist.gate.was # "new"
    /\ \E x \in ChatItems : x.n = hist.n

\* The envelopes _process_message passes on.
IsChannel(d) == d.shape = "dict" /\ d.type = "channel"

\* C39: an envelope that is empty, no dict, or of a type other than "channel"
\* is dropped: nothing is queued, no identifier enters the cache, no worker
\* or chat-channel task is touched, the connection and the registry stay as
\* they are, and the read loop listens on.  The body of a "channel" envelope
\* reaches the dedup gate.
C39_OnlyChannelDispatched ==
    [][\A d \in Envelopes : ListenEnvelopeResume(Caller, d) =>
          IF IsChannel(d)
          THEN hist'.gate.id = d.body.id
          ELSE /\ UNCHANGED <<event_queue, processed_events, workers,
                              chat_channel_tasks, hist, channels, ws_connection,
                              open_socks, running, should_reconnect>>
               /\ cur'[Caller].pc = "listen"
               /\ cur'[Caller].got = "discarded"]_vars

\* The read loop has dropped an envelope while the cache held an identifier
\* and the queue an item.
C39_Witness ==
    /\ cur[Caller].op = "connect" /\ cur[Caller].pc = "listen"
    /\ cur[Caller].got = "discarded"
    /\ event_queue # <<>> /\ processed_events # <<>>

\* C40: whatever the interleaving of the WebSocket path and the polling
\* path, a mention is marked processed at most once and a reply is generated
\* for it at most once.
C40_MentionHandledOnce ==
    \A i \in MentionIds : mentions.marks[i] <= 1 /\ mentions.replies[i] <= 1

====
